---- MODULE Spec2Model ----
(***************************************************************************)
(* onWatch: the Copilot reset-cycle tracker (internal/tracker) over the    *)
(* cycle store it writes to.                                               *)
(*                                                                         *)
(* A point in time is a natural number.  An optional value (a Go pointer   *)
(* that may be nil, a map lookup that may miss, a possibly empty string)   *)
(* is the empty sequence << >> when absent and a one-element sequence when *)
(* present.                                                                *)
(***************************************************************************)
EXTENDS Integers, Sequences, FiniteSets, TLC

(***************************************************************************)
(* Bounds of the model.                                                    *)
(***************************************************************************)
\* capturedAt of the snapshots runs over 1..MaxTime, strictly increasing
MaxTime == 3
\* the same, where the snapshots carry several quotas (SpecBatch)
MaxBatchTime == 2
\* at most this many Process calls meet a failing store call
MaxFailures == 1

\* the quota names a snapshot may carry, in the order ToSnapshot lists them
QuotaNames == <<"chat", "premium_interactions">>
Names == {QuotaNames[i] : i \in 1..Len(QuotaNames)}
\* the (entitlement, remaining) pairs a reading of each quota may carry
Readings ==
    [chat                 |-> {<<0, 0>>},
     premium_interactions |-> {<<2, 0>>, <<2, 1>>, <<2, 2>>, <<3, 2>>}]
\* reset dates a snapshot may carry: an instant and the zone offset it was
\* parsed with
ResetDates == {[utc |-> 1, off |-> 0], [utc |-> 2, off |-> 0]}

VARIABLES
    cycles,         \* store: the rows of copilot_reset_cycles, in insertion order
    lastValues,     \* tracker: quota name -> last remaining count
    lastResets,     \* tracker: quota name -> last reset date string
    hasLastValues,  \* tracker: a Process call has completed
    onReset,        \* tracker: a reset callback is registered
    now,            \* capturedAt of the latest snapshot handed to Process
    failures,       \* the number of Process calls that met a failing store call
    skipped,        \* history: the quota names of the latest snapshot processQuota did not run for
    lastError,      \* history: << >>, or <<name>> of the quota its error is tagged with
    visited,        \* history: the quota names processQuota ran for in that call
    fired,          \* history: the names onReset was invoked with in that call
    firedAt,        \* history: for each of them, the store as the callback found it
    obs,            \* history: per quota, what was observed in its open cycle
    own,            \* history: per quota, the open cycle was opened by this tracker
    clean,          \* history: no store operation failed since this tracker was built
    latest,         \* store: the snapshot inserted last, << >> when there is none
    summary,        \* history: what the latest UsageSummary call was asked and returned
    asking,         \* a UsageSummary call between its store reads: what it has read so far
    agent,          \* the agent goroutine: where Run stands and what its latest poll did
    ticker,         \* ticker.C holds a tick
    ctx,            \* the context handed to Run: "live" or "cancelled"
    polling,        \* what pollingCheck returns when it is called
    db,             \* the database: "open" or "closed"
    sessions,       \* the SessionStore: its tokens with their expiry, username, password
    clock,          \* time.Now() as the SessionStore reads it
    served,         \* history: the latest request the middleware saw and what it answered
    issued,         \* history: every token Authenticate stored, and what its latest call returned
    validating,     \* the ValidateToken calls in progress, one slot a caller
    run,            \* Agent.Run of the generic agent: where it stands and what it has called
    sessionRows     \* store: the rows of sessions, in insertion order

vars == <<cycles, lastValues, lastResets, hasLastValues, onReset, now, failures,
          skipped, lastError, visited, fired, firedAt, obs, own, clean, latest, summary,
          asking,
          agent, ticker, ctx, polling, db, sessions, clock, served, issued, validating,
          run, sessionRows>>

\* what belongs to the web server's authentication
webVars == <<sessions, clock, served, issued, validating>>

\* what belongs to Agent.Run and the sessions it keeps in the store
sessionVars == <<run, sessionRows>>

\* what belongs to the agent and to the program's shutdown
agentVars == <<agent, ticker, ctx, polling, db>>

(***************************************************************************)
(* Small helpers.                                                          *)
(***************************************************************************)
SetMin(S) == CHOOSE x \in S : \A y \in S : x <= y

Put(f, k, v) == [x \in (DOMAIN f) \cup {k} |-> IF x = k THEN v ELSE f[x]]

NoError == << >>

(***************************************************************************)
(* api.CopilotQuota / api.CopilotSnapshot                                  *)
(***************************************************************************)
CopilotQuota(name, entitlement, remaining) ==
    [name |-> name, entitlement |-> entitlement, remaining |-> remaining]

CopilotSnapshot(capturedAt, resetDate, quotas) ==
    [capturedAt |-> capturedAt, resetDate |-> resetDate, quotas |-> quotas]

\* time.Time.Format(time.RFC3339Nano): the local reading and the zone offset;
\* one instant parsed with two offsets gives two strings
FormatRFC3339Nano(t) == <<t.utc + t.off, t.off>>

\* time.Time.After compares instants
After(t, u) == t > u

(***************************************************************************)
(* The cycle store (internal/store), one table of cycle rows.              *)
(***************************************************************************)
IsActive(row, quotaName) == row.quotaName = quotaName /\ row.cycleEnd = << >>

ActiveRows(rows, quotaName) ==
    {i \in 1..Len(rows) : IsActive(rows[i], quotaName)}

\* the open cycle of quotaName (a pointer: << >> is nil)
QueryActiveCopilotCycle(rows, quotaName) ==
    IF ActiveRows(rows, quotaName) = {} THEN << >>
    ELSE <<rows[SetMin(ActiveRows(rows, quotaName))]>>

\* a new open cycle; its statistics start at zero
CreateCopilotCycle(rows, quotaName, cycleStart, resetDate) ==
    Append(rows, [id         |-> Len(rows) + 1,
                  quotaName  |-> quotaName,
                  cycleStart |-> cycleStart,
                  cycleEnd   |-> << >>,
                  resetDate  |-> IF resetDate = << >> THEN << >> ELSE <<resetDate[1].utc>>,
                  peakUsed   |-> 0,
                  totalDelta |-> 0])

\* a slip: the statistics written to every cycle of quotaName, closed ones too
UpdateCopilotCycleEveryRow(rows, quotaName, peakUsed, totalDelta) ==
    [i \in 1..Len(rows) |->
        IF rows[i].quotaName = quotaName
        THEN [rows[i] EXCEPT !.peakUsed = peakUsed, !.totalDelta = totalDelta]
        ELSE rows[i]]

\* overwrites the statistics of the open cycle of quotaName
UpdateCopilotCycle(rows, quotaName, peakUsed, totalDelta) ==
    [i \in 1..Len(rows) |->
        IF IsActive(rows[i], quotaName)
        THEN [rows[i] EXCEPT !.peakUsed = peakUsed, !.totalDelta = totalDelta]
        ELSE rows[i]]

\* closes the open cycle of quotaName with its final statistics
CloseCopilotCycle(rows, quotaName, cycleEnd, peakUsed, totalDelta) ==
    [i \in 1..Len(rows) |->
        IF IsActive(rows[i], quotaName)
        THEN [rows[i] EXCEPT !.cycleEnd = <<cycleEnd>>,
                             !.peakUsed = peakUsed, !.totalDelta = totalDelta]
        ELSE rows[i]]

\* the closed cycles of quotaName
QueryCopilotCycleHistory(rows, quotaName) ==
    SelectSeq(rows, LAMBDA r : r.quotaName = quotaName /\ r.cycleEnd # << >>)

(***************************************************************************)
(* Store failures.  A Process call makes its store calls one after the     *)
(* other; the call numbered failAt returns an error (failAt = 0: none).    *)
(* st is the tracker and store state threaded through one Process call.    *)
(***************************************************************************)
StoreCallFails(st) == st.ops + 1 = st.failAt

Counted(st) == [st EXCEPT !.ops = @ + 1]

Failed(st) == [st EXCEPT !.ops = @ + 1, !.err = TRUE]

(***************************************************************************)
(* tracker.CopilotTracker                                                  *)
(***************************************************************************)
\* Process: the reset date string of the snapshot
ResetDateStr(resetDate) ==
    IF resetDate # << >> THEN <<FormatRFC3339Nano(resetDate[1])>> ELSE << >>

\* processQuota: currentUsed
CurrentUsed(quota) == quota.entitlement - quota.remaining

\* a slip: the nil test left out, every reading opens a cycle
NoActiveCycleUnchecked(cycle) == TRUE

\* processQuota: "if cycle == nil", the first snapshot for this quota
NoActiveCycle(cycle) == cycle = << >>

\* a slip: the first reading's used value counted as consumption
InitialStatsCountingUsed(currentUsed) == [peakUsed |-> currentUsed, totalDelta |-> currentUsed]

\* processQuota: the statistics written right after CreateCopilotCycle
InitialStats(currentUsed) == [peakUsed |-> currentUsed, totalDelta |-> 0]

\* a slip: the test that the recorded string is not empty left out
ResetDateChangedFromEmpty(lastResetsMap, quotaName, resetDateStr) ==
    /\ quotaName \in DOMAIN lastResetsMap
    /\ resetDateStr # << >>
    /\ resetDateStr # lastResetsMap[quotaName]

\* a slip: the map read without its ok, a date never remembered counting as changed
ResetDateChangedUnremembered(lastResetsMap, quotaName, resetDateStr) ==
    /\ resetDateStr # << >>
    /\ quotaName \in DOMAIN lastResetsMap
         => (lastResetsMap[quotaName] # << >> /\ resetDateStr # lastResetsMap[quotaName])

\* a slip: the comparison of the two strings turned round
ResetDateChangedInverted(lastResetsMap, quotaName, resetDateStr) ==
    /\ quotaName \in DOMAIN lastResetsMap
    /\ lastResetsMap[quotaName] # << >>
    /\ resetDateStr # << >>
    /\ resetDateStr = lastResetsMap[quotaName]

\* processQuota: reset detection by comparing reset date strings
ResetDateChanged(lastResetsMap, quotaName, resetDateStr) ==
    /\ quotaName \in DOMAIN lastResetsMap
    /\ lastResetsMap[quotaName] # << >>
    /\ resetDateStr # << >>
    /\ resetDateStr # lastResetsMap[quotaName]

\* a slip: the map read without its ok, a missing last value reading as 0
TimeBasedResetZeroValue(cycle, capturedAt, lastValuesMap, quota) ==
    /\ cycle.resetDate # << >>
    /\ After(capturedAt, cycle.resetDate[1])
    /\ quota.remaining > (IF quota.name \in DOMAIN lastValuesMap
                          THEN lastValuesMap[quota.name] ELSE 0)

\* a slip: the test that the reset date has passed left out
TimeBasedResetAnyTime(cycle, capturedAt, lastValuesMap, quota) ==
    /\ cycle.resetDate # << >>
    /\ quota.name \in DOMAIN lastValuesMap
    /\ quota.remaining > lastValuesMap[quota.name]

\* processQuota: time-based reset detection (reset date passed + remaining increased)
TimeBasedReset(cycle, capturedAt, lastValuesMap, quota) ==
    /\ cycle.resetDate # << >>
    /\ After(capturedAt, cycle.resetDate[1])
    /\ quota.name \in DOMAIN lastValuesMap
    /\ quota.remaining > lastValuesMap[quota.name]

\* processQuota: resetDetected
ResetDetected(st, cycle, quota, capturedAt, resetDateStr) ==
    \/ ResetDateChanged(st.lastResets, quota.name, resetDateStr)
    \/ TimeBasedReset(cycle, capturedAt, st.lastValues, quota)

\* a slip: the cycle always closed at the time of the snapshot
CycleEndTimeCaptured(cycle, capturedAt) == capturedAt

\* processQuota: cycleEndTime of the cycle being closed
CycleEndTime(cycle, capturedAt) ==
    IF cycle.resetDate # << >> /\ After(capturedAt, cycle.resetDate[1])
    THEN cycle.resetDate[1]
    ELSE capturedAt

\* a slip: the delta added whatever its sign
UsageDeltaSigned(lastRemaining, remaining) == lastRemaining - remaining

\* a slip: the size of the step counted, a rise of remaining like a fall
UsageDeltaAbsolute(lastRemaining, remaining) ==
    IF lastRemaining - remaining > 0 THEN lastRemaining - remaining ELSE remaining - lastRemaining

\* processQuota: what a pair of remaining counts adds to TotalDelta
UsageDelta(lastRemaining, remaining) ==
    IF lastRemaining - remaining > 0 THEN lastRemaining - remaining ELSE 0

\* a slip: the latest used value taken for the peak
PeakUsedLatest(currentUsed, peakUsed) == currentUsed

\* processQuota: the peak after a reading
PeakUsed(currentUsed, peakUsed) ==
    IF currentUsed > peakUsed THEN currentUsed ELSE peakUsed

\* processQuota: the delta is computed only with a last value of an earlier call
HasLastValue(st, quotaName) ==
    st.hasLastValues /\ quotaName \in DOMAIN st.lastValues

\* a slip: the last value kept from the first reading on
RememberFirstValue(st, quota, resetDateStr) ==
    [st EXCEPT !.lastValues = IF quota.name \in DOMAIN @ THEN @ ELSE Put(@, quota.name, quota.remaining),
               !.lastResets = Put(@, quota.name, resetDateStr)]

\* processQuota: t.lastValues[quotaName] = quota.Remaining; t.lastResets[quotaName] = resetDateStr
Remember(st, quota, resetDateStr) ==
    [st EXCEPT !.lastValues = Put(@, quota.name, quota.remaining),
               !.lastResets = Put(@, quota.name, resetDateStr)]

\* a slip: the cycle is created once more after its initial peak is written
OpenCycleTwice(st, quota, capturedAt, resetDate, resetDateStr) ==
    IF StoreCallFails(st) THEN Failed(st)
    ELSE LET created == [Counted(st) EXCEPT
                 !.cycles = CreateCopilotCycle(@, quota.name, capturedAt, resetDate)]
             stats == InitialStats(CurrentUsed(quota))
         IN  IF StoreCallFails(created) THEN Failed(created)
             ELSE Remember(
                    [Counted(created) EXCEPT
                       !.cycles = CreateCopilotCycle(
                                    UpdateCopilotCycle(@, quota.name, stats.peakUsed, stats.totalDelta),
                                    quota.name, capturedAt, resetDate)],
                    quota, resetDateStr)

\* processQuota: CreateCopilotCycle, then UpdateCopilotCycle with the initial peak
OpenCycle(st, quota, capturedAt, resetDate, resetDateStr) ==
    IF StoreCallFails(st) THEN Failed(st)
    ELSE LET created == [Counted(st) EXCEPT
                 !.cycles = CreateCopilotCycle(@, quota.name, capturedAt, resetDate)]
             stats == InitialStats(CurrentUsed(quota))
         IN  IF StoreCallFails(created) THEN Failed(created)
             ELSE Remember(
                    [Counted(created) EXCEPT
                       !.cycles = UpdateCopilotCycle(@, quota.name, stats.peakUsed, stats.totalDelta)],
                    quota, resetDateStr)

\* onReset(quotaName) is entered: the name it is given and the store it finds
Callback(st, cycle, quota) ==
    [st EXCEPT !.fired = Append(@, quota.name),
               !.firedAt = Append(@, [rows |-> st.cycles, closed |-> cycle.id])]

\* a slip: the callback invoked when the reset is detected, before the store calls
CloseAndReopenCallbackFirst(st, cycle, quota, capturedAt, resetDate, resetDateStr) ==
    LET told == IF st.onReset THEN Callback(st, cycle, quota) ELSE st
    IN  IF StoreCallFails(told) THEN Failed(told)
        ELSE OpenCycle([Counted(told) EXCEPT
                          !.cycles = CloseCopilotCycle(@, quota.name, CycleEndTime(cycle, capturedAt),
                                                       cycle.peakUsed, cycle.totalDelta)],
                       quota, capturedAt, resetDate, resetDateStr)

\* a slip: the new cycle is given the statistics of the cycle just closed
CloseAndReopenCarryingOver(st, cycle, quota, capturedAt, resetDate, resetDateStr) ==
    IF StoreCallFails(st) THEN Failed(st)
    ELSE LET closed == [Counted(st) EXCEPT
                 !.cycles = CloseCopilotCycle(@, quota.name, CycleEndTime(cycle, capturedAt),
                                              cycle.peakUsed, cycle.totalDelta)]
             opened == OpenCycle(closed, quota, capturedAt, resetDate, resetDateStr)
             carried == [opened EXCEPT
                 !.cycles = UpdateCopilotCycle(@, quota.name, cycle.peakUsed, cycle.totalDelta)]
         IN  IF opened.err THEN opened
             ELSE IF opened.onReset
                  THEN Callback(carried, cycle, quota)
                  ELSE carried

\* processQuota: the reset branch
CloseAndReopen(st, cycle, quota, capturedAt, resetDate, resetDateStr) ==
    IF StoreCallFails(st) THEN Failed(st)
    ELSE LET closed == [Counted(st) EXCEPT
                 !.cycles = CloseCopilotCycle(@, quota.name, CycleEndTime(cycle, capturedAt),
                                              cycle.peakUsed, cycle.totalDelta)]
             opened == OpenCycle(closed, quota, capturedAt, resetDate, resetDateStr)
         IN  IF opened.err THEN opened
             ELSE IF opened.onReset
                  THEN Callback(opened, cycle, quota)
                  ELSE opened

\* a slip: the same-cycle branch records the reading and writes nothing
UpdateStatsSkipped(st, cycle, quota, resetDateStr) == Remember(st, quota, resetDateStr)

\* processQuota: the same-cycle branch
UpdateStats(st, cycle, quota, resetDateStr) ==
    LET currentUsed == CurrentUsed(quota)
        totalDelta  == IF HasLastValue(st, quota.name)
                       THEN cycle.totalDelta + UsageDelta(st.lastValues[quota.name], quota.remaining)
                       ELSE cycle.totalDelta
        peakUsed    == PeakUsed(currentUsed, cycle.peakUsed)
        writes      == HasLastValue(st, quota.name) \/ currentUsed > cycle.peakUsed
    IN  IF ~writes THEN Remember(st, quota, resetDateStr)
        ELSE IF StoreCallFails(st) THEN Failed(st)
        ELSE Remember(
               [Counted(st) EXCEPT
                  !.cycles = UpdateCopilotCycle(@, quota.name, peakUsed, totalDelta)],
               quota, resetDateStr)

\* a slip: the callback invoked as well when the first cycle of a quota is opened
processQuotaCallbackOnFirst(st0, quota, capturedAt, resetDate, resetDateStr) ==
    LET st == [st0 EXCEPT !.visited = Append(@, quota.name)]
    IN  IF StoreCallFails(st) THEN Failed(st)
        ELSE LET q     == Counted(st)
                 cycle == QueryActiveCopilotCycle(q.cycles, quota.name)
                 first == OpenCycle(q, quota, capturedAt, resetDate, resetDateStr)
             IN  IF NoActiveCycle(cycle)
                 THEN IF first.err \/ ~first.onReset THEN first
                      ELSE Callback(first, [id |-> 0], quota)
                 ELSE IF ResetDetected(q, cycle[1], quota, capturedAt, resetDateStr)
                 THEN CloseAndReopen(q, cycle[1], quota, capturedAt, resetDate, resetDateStr)
                 ELSE UpdateStats(q, cycle[1], quota, resetDateStr)

\* processQuota: the active cycle is queried; a quota without one gets its
\* first cycle, a detected reset closes and reopens, else the statistics
processQuota(st0, quota, capturedAt, resetDate, resetDateStr) ==
    LET st == [st0 EXCEPT !.visited = Append(@, quota.name)]
    IN  IF StoreCallFails(st) THEN Failed(st)
        ELSE LET q     == Counted(st)
                 cycle == QueryActiveCopilotCycle(q.cycles, quota.name)
             IN  IF NoActiveCycle(cycle)
                 THEN OpenCycle(q, quota, capturedAt, resetDate, resetDateStr)
                 ELSE IF ResetDetected(q, cycle[1], quota, capturedAt, resetDateStr)
                 THEN CloseAndReopen(q, cycle[1], quota, capturedAt, resetDate, resetDateStr)
                 ELSE UpdateStats(q, cycle[1], quota, resetDateStr)

\* Process: the loop over snapshot.Quotas, left at the first error
RECURSIVE ProcessQuotas(_, _, _)
ProcessQuotas(st, snapshot, i) ==
    IF i > Len(snapshot.quotas) THEN st
    ELSE LET r == processQuota(st, snapshot.quotas[i], snapshot.capturedAt,
                               snapshot.resetDate, ResetDateStr(snapshot.resetDate))
         IN  IF r.err THEN r ELSE ProcessQuotas(r, snapshot, i + 1)

\* Process: the state after the call, hasLastValues set unless it returned an error
ProcessResult(st, snapshot) ==
    LET r == ProcessQuotas(st, snapshot, 1)
    IN  IF r.err THEN r ELSE [r EXCEPT !.hasLastValues = TRUE]

(***************************************************************************)
(* History of what the tracker was given, kept per quota for its open      *)
(* cycle: the reading before this one, the greatest used value, and the    *)
(* sums of the positive steps of used and of remaining.                    *)
(***************************************************************************)
Max(a, b) == IF a > b THEN a ELSE b

Positive(d) == IF d > 0 THEN d ELSE 0

NoObs == [prev |-> << >>, maxUsed |-> << >>, usedInc |-> 0, remDec |-> 0, openedBy |-> "none"]

FirstObs(quota, marker, openedBy) ==
    [prev    |-> <<[entitlement |-> quota.entitlement, remaining |-> quota.remaining,
                    marker |-> marker]>>,
     maxUsed |-> <<CurrentUsed(quota)>>,
     usedInc |-> 0,
     remDec  |-> 0,
     openedBy |-> openedBy]

NextObs(o, quota, marker) ==
    [prev    |-> <<[entitlement |-> quota.entitlement, remaining |-> quota.remaining,
                    marker |-> marker]>>,
     maxUsed |-> IF o.maxUsed = << >> THEN <<CurrentUsed(quota)>>
                 ELSE <<Max(o.maxUsed[1], CurrentUsed(quota))>>,
     usedInc |-> IF o.prev = << >> THEN o.usedInc
                 ELSE o.usedInc + Positive(CurrentUsed(quota) - CurrentUsed(o.prev[1])),
     remDec  |-> IF o.prev = << >> THEN o.remDec
                 ELSE o.remDec + Positive(o.prev[1].remaining - quota.remaining),
     openedBy |-> o.openedBy]

\* the reading of quota name n in a snapshot that carries it
ReadingOf(snapshot, n) ==
    snapshot.quotas[CHOOSE i \in 1..Len(snapshot.quotas) : snapshot.quotas[i].name = n]

\* the quota names whose per-quota update ran to its end in a call
Completed(r) ==
    {r.visited[i] : i \in 1..Len(r.visited)} \ (IF r.err THEN {r.visited[Len(r.visited)]} ELSE {})

ActiveId(rows, n) ==
    LET c == QueryActiveCopilotCycle(rows, n) IN IF c = << >> THEN << >> ELSE <<c[1].id>>

\* the names whose open cycle is the same one before and after a call
SameCycle(r) == {n \in Names : ActiveId(r.cycles, n) = ActiveId(cycles, n)}

\* what made processQuota open a cycle for n in a call on this snapshot: no
\* cycle was open, the reset date string had changed, or the time-based test
OpenedBy(snapshot, n) ==
    IF QueryActiveCopilotCycle(cycles, n) = << >> THEN "first"
    ELSE IF ResetDateChanged(lastResets, n, ResetDateStr(snapshot.resetDate)) THEN "marker"
    ELSE "fallback"

ObsAfter(done, same, snapshot, n) ==
    IF n \in done
    THEN IF n \in same
         THEN NextObs(obs[n], ReadingOf(snapshot, n), ResetDateStr(snapshot.resetDate))
         ELSE FirstObs(ReadingOf(snapshot, n), ResetDateStr(snapshot.resetDate),
                       OpenedBy(snapshot, n))
    ELSE IF n \in same THEN obs[n] ELSE NoObs

OwnAfter(done, same, n) == IF n \in same THEN own[n] ELSE n \in done

(***************************************************************************)
(* The inputs.                                                             *)
(***************************************************************************)
NameIndex(n) == CHOOSE i \in 1..Len(QuotaNames) : QuotaNames[i] = n

AllReadings == UNION {{CopilotQuota(n, p[1], p[2]) : p \in Readings[n]} : n \in Names}

\* the quota lists of a snapshot: distinct names, sorted as ToSnapshot sorts them
QuotaLists ==
    {s \in UNION {[1..k -> AllReadings] : k \in 0..Len(QuotaNames)} :
        \A i, j \in 1..Len(s) : i < j => NameIndex(s[i].name) < NameIndex(s[j].name)}

\* the quota lists with the premium quota alone, and the empty one
SingleLists == {s \in QuotaLists : \A i \in 1..Len(s) : s[i].name = "premium_interactions"}

OptionalResetDates == {<< >>} \cup {<<d>> : d \in ResetDates}

\* at most this many store calls in one Process call: query, close, create, update per quota
MaxStoreCalls == 4 * Len(QuotaNames)

(***************************************************************************)
(* The state machine.                                                      *)
(***************************************************************************)
\* strings are sequences of characters; these are the configured credentials
Username == <<"a">>
Password == <<"b">>

\* NewSessionStore: no token yet
NewSessionStore(username, password) ==
    [tokens |-> << >>, username |-> username, password |-> password]

\* NewCopilotAgent: Run is not called yet, nothing is in flight
NotStarted ==
    [pc |-> "start", inflight |-> << >>, running |-> 0, began |-> "none",
     did |-> {}, fetched |-> "none", enabled |-> FALSE, result |-> "none",
     inserted |-> "none", processed |-> "none", erred |-> FALSE]

\* the goroutines that call ValidateToken at the same time
MaxCallers == 2
Callers == 1..MaxCallers

\* a caller that is not in ValidateToken
Idle ==
    [pc |-> "idle", token |-> "", expiry |-> << >>, known |-> FALSE, dead |-> FALSE,
     result |-> "none"]

\* agent.New in a process started after `runs` earlier calls of Run; the
\* context it will be handed is live
New(runs) ==
    [pc |-> "start", sessionID |-> 0, ticker |-> FALSE, ctx |-> "live", polls |-> 0,
     result |-> "none", runs |-> runs, closeCalls |-> << >>, orphans |-> {}]

\* store.New on an empty database, then NewCopilotTracker and NewCopilotAgent
Init ==
    /\ cycles = << >>
    /\ lastValues = << >>
    /\ lastResets = << >>
    /\ hasLastValues = FALSE
    /\ onReset = FALSE
    /\ now = 0
    /\ failures = 0
    /\ skipped = << >>
    /\ lastError = NoError
    /\ visited = << >>
    /\ fired = << >>
    /\ firedAt = << >>
    /\ obs = [n \in Names |-> NoObs]
    /\ own = [n \in Names |-> FALSE]
    /\ clean = TRUE
    /\ latest = << >>
    /\ summary = << >>
    /\ asking = << >>
    /\ agent = NotStarted
    /\ ticker = FALSE
    /\ ctx = "live"
    /\ polling = TRUE
    /\ db = "open"
    /\ sessions = NewSessionStore(Username, Password)
    /\ clock = 0
    /\ served = << >>
    /\ issued = [tokens |-> << >>, last |-> << >>]
    /\ validating = [c \in Callers |-> Idle]
    /\ run = New(0)
    /\ sessionRows = << >>

\* CopilotTracker.SetOnReset
SetOnReset ==
    /\ ~onReset
    /\ onReset' = TRUE
    /\ UNCHANGED <<cycles, lastValues, lastResets, hasLastValues, now, failures,
                   skipped, lastError, visited, fired, firedAt, obs, own, clean,
                   latest, summary, asking, agentVars, webVars, sessionVars>>

\* CopilotTracker.Process(snapshot), with the store failing its call number failAt:
\* what it does to the tracker and to the cycles
ProcessCall(snapshot, failAt) ==
    /\ snapshot.capturedAt > now
    /\ failAt > 0 => failures < MaxFailures
    /\ \E r \in {ProcessResult([cycles |-> cycles, lastValues |-> lastValues,
                                lastResets |-> lastResets, hasLastValues |-> hasLastValues,
                                onReset |-> onReset, ops |-> 0, failAt |-> failAt,
                                err |-> FALSE, visited |-> << >>, fired |-> << >>,
                                firedAt |-> << >>],
                               snapshot)} :
        /\ failAt > 0 => r.err
        /\ failures' = IF r.err THEN failures + 1 ELSE failures
        /\ cycles' = r.cycles
        /\ lastValues' = r.lastValues
        /\ lastResets' = r.lastResets
        /\ hasLastValues' = r.hasLastValues
        /\ now' = snapshot.capturedAt
        /\ skipped' = SubSeq(snapshot.quotas, Len(r.visited) + 1, Len(snapshot.quotas))
        /\ lastError' = IF r.err THEN <<r.visited[Len(r.visited)]>> ELSE NoError
        /\ visited' = r.visited
        /\ fired' = r.fired
        /\ firedAt' = r.firedAt
        /\ \E done \in {Completed(r)}, same \in {SameCycle(r)} :
            /\ obs' = [n \in Names |-> ObsAfter(done, same, snapshot, n)]
            /\ own' = [n \in Names |-> OwnAfter(done, same, n)]
        /\ clean' = (clean /\ ~r.err)
        /\ UNCHANGED onReset

\* CopilotTracker.Process(snapshot), called on its own
Process(snapshot, failAt) ==
    /\ ProcessCall(snapshot, failAt)
    /\ UNCHANGED <<latest, summary, asking, agentVars, webVars, sessionVars>>

\* the program is started again: NewCopilotTracker over the same database
Restart ==
    /\ now > 0
    /\ lastValues' = << >>
    /\ lastResets' = << >>
    /\ hasLastValues' = FALSE
    /\ onReset' = FALSE
    /\ skipped' = << >>
    /\ lastError' = NoError
    /\ visited' = << >>
    /\ fired' = << >>
    /\ firedAt' = << >>
    /\ obs' = [n \in Names |-> [obs[n] EXCEPT !.prev = << >>]]
    /\ own' = [n \in Names |-> FALSE]
    /\ clean' = TRUE
    /\ UNCHANGED <<cycles, now, failures, latest, summary, asking, agentVars, webVars, sessionVars>>

\* one poll after the other, every snapshot carrying the premium quota alone or none
Next ==
    \/ SetOnReset
    \/ \E capturedAt \in (now + 1)..MaxTime, resetDate \in OptionalResetDates,
          quotas \in SingleLists, failAt \in 0..MaxStoreCalls :
            Process(CopilotSnapshot(capturedAt, resetDate, quotas), failAt)
    \/ Restart

Spec == Init /\ [][Next]_vars

\* snapshots that carry any of the quota lists
NextBatch ==
    \/ SetOnReset
    \/ \E capturedAt \in (now + 1)..MaxBatchTime, resetDate \in OptionalResetDates,
          quotas \in QuotaLists, failAt \in 0..MaxStoreCalls :
            Process(CopilotSnapshot(capturedAt, resetDate, quotas), failAt)
    \/ Restart

SpecBatch == Init /\ [][NextBatch]_vars

\* capturedAt of the snapshots of SpecMulti runs over 1..MaxMultiTime
MaxMultiTime == 2

\* the readings of SpecMulti: both quotas consume and both can be refilled
MultiReadings ==
    [chat                 |-> {<<1, 0>>, <<1, 1>>},
     premium_interactions |-> {<<2, 0>>, <<2, 2>>}]

\* the quota lists that carry every quota name
MultiLists ==
    {s \in [1..Len(QuotaNames) -> UNION {{CopilotQuota(n, p[1], p[2]) : p \in MultiReadings[n]} : n \in Names}] :
        \A i \in 1..Len(s) : s[i].name = QuotaNames[i]}

\* snapshots that carry every quota name
NextMulti ==
    \/ SetOnReset
    \/ \E capturedAt \in (now + 1)..MaxMultiTime, resetDate \in OptionalResetDates,
          quotas \in MultiLists, failAt \in 0..MaxStoreCalls :
            Process(CopilotSnapshot(capturedAt, resetDate, quotas), failAt)
    \/ Restart

SpecMulti == Init /\ [][NextMulti]_vars

(***************************************************************************)
(* CopilotTracker.UsageSummary.  A point in time counts minutes; a         *)
(* float64 that is a quotient is kept as the pair of the two integers.     *)
(***************************************************************************)
\* "elapsed.Minutes() >= 30"
RateWindowMinutes == 30
\* Duration.Hours() of a duration in minutes
MinutesPerHour == 60

Quotient(num, den) == [num |-> num, den |-> den]
ZeroFloat == Quotient(0, 1)

\* api.CopilotQuota with its Unlimited flag
CopilotQuotaUnlimited(name, entitlement, remaining, unlimited) ==
    [name |-> name, entitlement |-> entitlement, remaining |-> remaining,
     unlimited |-> unlimited]

\* store.QueryLatestCopilot: the snapshot inserted last (nil: << >>)
QueryLatestCopilot(latestRow) == latestRow

\* store.InsertCopilotSnapshot
InsertCopilotSnapshot(latestRow, snapshot) == <<snapshot>>

\* UsageSummary: the zero-valued summary of quotaName with len(history)
NewSummary(quotaName, history) ==
    [quotaName        |-> quotaName,
     completedCycles  |-> Len(history),
     trackingSince    |-> 0,
     avgPerCycle      |-> ZeroFloat,
     peakCycle        |-> 0,
     totalTracked     |-> 0,
     resetDate        |-> << >>,
     entitlement      |-> 0,
     currentRemaining |-> 0,
     currentUsed      |-> 0,
     unlimited        |-> FALSE,
     currentRate      |-> ZeroFloat,
     projectedUsage   |-> 0]

\* UsageSummary: the loop over history, totalDelta summed and PeakCycle raised
RECURSIVE HistoryStats(_, _, _)
HistoryStats(sm, history, i) ==
    IF i > Len(history) THEN sm
    ELSE HistoryStats([sm EXCEPT !.totalTracked = @ + history[i].totalDelta,
                                 !.peakCycle = IF history[i].peakUsed > @
                                               THEN history[i].peakUsed ELSE @],
                      history, i + 1)

\* UsageSummary: summary.TrackingSince
TrackingSince(history) == history[Len(history)].cycleStart

\* a slip: the statistics of the completed cycles computed without the test that
\* there are any, the mean of no cycles being 0/0
WithHistoryUnguarded(sm, history) ==
    LET st == HistoryStats([sm EXCEPT !.trackingSince =
                               IF Len(history) > 0 THEN TrackingSince(history) ELSE 0],
                           history, 1)
    IN  [st EXCEPT !.avgPerCycle = Quotient(st.totalTracked, Len(history))]

\* UsageSummary: "Calculate stats from completed cycles"
WithHistory(sm, history) ==
    IF Len(history) > 0
    THEN LET st == HistoryStats([sm EXCEPT !.trackingSince = TrackingSince(history)],
                                history, 1)
         IN  [st EXCEPT !.avgPerCycle = Quotient(st.totalTracked, Len(history))]
    ELSE sm

\* a slip: the peak of the active cycle taken whatever the completed cycles reached
WithActiveCycleLatestPeak(sm, activeCycle) ==
    [sm EXCEPT !.totalTracked = @ + activeCycle.totalDelta,
               !.peakCycle = activeCycle.peakUsed,
               !.resetDate = activeCycle.resetDate]

\* UsageSummary: "Add active cycle data"
WithActiveCycle(sm, activeCycle) ==
    [sm EXCEPT !.totalTracked = @ + activeCycle.totalDelta,
               !.peakCycle = IF activeCycle.peakUsed > @ THEN activeCycle.peakUsed ELSE @,
               !.resetDate = activeCycle.resetDate]

\* UsageSummary: the current values of quotaName in the latest snapshot
RECURSIVE WithLatest(_, _, _)
WithLatest(sm, snapshot, i) ==
    IF i > Len(snapshot.quotas) THEN sm
    ELSE IF snapshot.quotas[i].name = sm.quotaName
    THEN [sm EXCEPT !.entitlement = snapshot.quotas[i].entitlement,
                    !.currentRemaining = snapshot.quotas[i].remaining,
                    !.currentUsed = snapshot.quotas[i].entitlement - snapshot.quotas[i].remaining,
                    !.unlimited = snapshot.quotas[i].unlimited,
                    !.resetDate = IF @ = << >> /\ snapshot.resetDate # << >>
                                  THEN <<snapshot.resetDate[1].utc>> ELSE @]
    ELSE WithLatest(sm, snapshot, i + 1)


\* a slip: the rate computed however young the cycle is
RateAppliesAnyAge(activeCycle, elapsed) == elapsed > 0 /\ activeCycle.totalDelta > 0

\* UsageSummary: the rate is computed for a cycle 30 minutes old that counted usage
RateApplies(activeCycle, elapsed) ==
    elapsed >= RateWindowMinutes /\ activeCycle.totalDelta > 0

\* UsageSummary: the projection is computed with a reset date and an entitlement
ProjectionApplies(sm) == sm.resetDate # << >> /\ sm.entitlement > 0

\* a slip: the projection reported as extrapolated, not held to the entitlement
ProjectedUnclamped(sm, totalDelta, elapsed, minutesLeft) ==
    sm.currentUsed + ((totalDelta * minutesLeft) \div elapsed)

\* UsageSummary: currentUsed + int(CurrentRate * hoursLeft), not above the entitlement
Projected(sm, totalDelta, elapsed, minutesLeft) ==
    LET projected == sm.currentUsed + ((totalDelta * minutesLeft) \div elapsed)
    IN  IF projected > sm.entitlement THEN sm.entitlement ELSE projected

\* UsageSummary: "Calculate rate from tracked usage within this cycle"
WithRate(sm, activeCycle, wall) ==
    LET elapsed == wall - activeCycle.cycleStart
    IN  IF ~RateApplies(activeCycle, elapsed) THEN sm
        ELSE LET rated == [sm EXCEPT !.currentRate =
                              Quotient(activeCycle.totalDelta * MinutesPerHour, elapsed)]
             IN  IF ProjectionApplies(rated) /\ rated.resetDate[1] - wall > 0
                 THEN [rated EXCEPT !.projectedUsage =
                          Projected(rated, activeCycle.totalDelta, elapsed,
                                    rated.resetDate[1] - wall)]
                 ELSE rated

SummaryError == [err |-> TRUE, value |-> << >>]
SummaryOf(sm) == [err |-> FALSE, value |-> <<sm>>]

\* UsageSummary(quotaName) at wall-clock time wall, from what its three queries
\* returned, the store failing its call number failAt (0: none)
SummaryFrom(activeCycle, history, latestRead, quotaName, wall, failAt) ==
    IF failAt = 1 THEN SummaryError
    ELSE IF failAt = 2 THEN SummaryError
    ELSE LET sm == WithHistory(NewSummary(quotaName, history), history)
         IN  IF activeCycle = << >> THEN SummaryOf(sm)
             ELSE IF failAt = 3 THEN SummaryError
             ELSE IF latestRead = << >>
                  THEN SummaryOf(WithActiveCycle(sm, activeCycle[1]))
                  ELSE SummaryOf(WithRate(WithLatest(WithActiveCycle(sm, activeCycle[1]),
                                                     latestRead[1], 1),
                                          activeCycle[1], wall))

\* UsageSummary(quotaName) with nothing written to the store between its queries
UsageSummary(rows, latestRow, quotaName, wall, failAt) ==
    SummaryFrom(QueryActiveCopilotCycle(rows, quotaName),
                QueryCopilotCycleHistory(rows, quotaName),
                QueryLatestCopilot(latestRow), quotaName, wall, failAt)

(***************************************************************************)
(* The agent's poll and the summaries asked of the tracker.                *)
(***************************************************************************)
\* capturedAt of the snapshots of SpecSummary runs over 1..MaxSummaryTime
MaxSummaryTime == 3

\* the readings of the premium quota: entitlement, remaining, unlimited
SummaryReadings == {<<2, 2, FALSE>>, <<2, 1, FALSE>>, <<2, 0, TRUE>>}

\* a snapshot carries the premium quota
SummaryLists ==
    {<<CopilotQuotaUnlimited("premium_interactions", p[1], p[2], p[3])>> : p \in SummaryReadings}

\* a reset date that passes while the model runs, and one that does not
SummaryResetDates == {<< >>, <<[utc |-> 2, off |-> 0]>>, <<[utc |-> 100, off |-> 0]>>}

\* minutes from the latest poll to the UsageSummary call: a cycle begun at the
\* poll before it is then 29 or 30 minutes old
WallOffsets == {RateWindowMinutes - 2, RateWindowMinutes - 1}

\* at most this many store calls in one UsageSummary call: active cycle, history, latest
MaxSummaryCalls == 3

\* CopilotAgent.poll: the snapshot is inserted (or the insert fails and is logged),
\* then handed to the tracker.  Here the tracker's own store calls succeed, and
\* an insert fails only while the store holds no snapshot
poll(snapshot, inserted) ==
    /\ ~inserted => latest = << >>
    /\ latest' = IF inserted THEN InsertCopilotSnapshot(latest, snapshot) ELSE latest
    /\ ProcessCall(snapshot, 0)
    /\ UNCHANGED <<summary, asking, agentVars, webVars, sessionVars>>

\* history: a Process call stands between two of its store calls
MidProcess == agent.inflight # << >> /\ agent.inflight[1].calls > 0

\* what a UsageSummary call leaves behind for the properties to read
SummaryRecord(quotaName, wall, failAt, r) ==
    <<[quotaName |-> quotaName, wall |-> wall, failAt |-> failAt,
       err |-> r.err, value |-> r.value, midProcess |-> MidProcess]>>

\* a slip: the summary marks the tracker as holding the values of a finished poll
UsageSummaryCallMarking(quotaName, wall, failAt) ==
    /\ \E r \in {UsageSummary(cycles, latest, quotaName, wall, failAt)} :
        /\ failAt > 0 => r.err
        /\ summary' = SummaryRecord(quotaName, wall, failAt, r)
    /\ hasLastValues' = TRUE
    /\ UNCHANGED <<cycles, lastValues, lastResets, onReset, now, failures,
                   skipped, lastError, visited, fired, firedAt, obs, own, clean, latest,
                   asking, agentVars, webVars, sessionVars>>

\* a UsageSummary call: it queries the store and writes nothing
UsageSummaryCall(quotaName, wall, failAt) ==
    /\ \E r \in {UsageSummary(cycles, latest, quotaName, wall, failAt)} :
        /\ failAt > 0 => r.err
        /\ summary' = SummaryRecord(quotaName, wall, failAt, r)
    /\ UNCHANGED <<cycles, lastValues, lastResets, hasLastValues, onReset, now, failures,
                   skipped, lastError, visited, fired, firedAt, obs, own, clean, latest,
                   asking, agentVars, webVars, sessionVars>>

NextSummary ==
    \/ \E capturedAt \in (now + 1)..MaxSummaryTime, resetDate \in SummaryResetDates,
          quotas \in SummaryLists, inserted \in BOOLEAN :
            poll(CopilotSnapshot(capturedAt, resetDate, quotas), inserted)
    \/ \E quotaName \in Names, offset \in WallOffsets, failAt \in 0..MaxSummaryCalls :
            UsageSummaryCall(quotaName, now + offset, failAt)

SpecSummary == Init /\ [][NextSummary]_vars

(***************************************************************************)
(* The agent goroutine, one store call of Process at a time, next to the   *)
(* goroutines that ask for summaries and that shut the program down.       *)
(***************************************************************************)
\* capturedAt of the snapshots the agent fetches runs over 1..MaxAgentTime
MaxAgentTime == 2

\* the readings of the premium quota the agent fetches: entitlement, remaining
AgentReadings == {<<2, 2>>, <<2, 1>>}

\* a fetched snapshot carries the premium quota and one of the reset dates
AgentSnapshots ==
    {CopilotSnapshot(capturedAt, <<d>>,
                     <<CopilotQuotaUnlimited("premium_interactions", p[1], p[2], FALSE)>>) :
        capturedAt \in 1..MaxAgentTime, d \in ResetDates, p \in AgentReadings}

\* what Process works on
trackerVars == <<cycles, lastValues, lastResets, hasLastValues>>

\* what the agent's steps do not record
ghostVars == <<onReset, failures, skipped, lastError, visited, fired, firedAt, obs, own,
               clean>>

\* a slip: the poll goes on whatever pollingCheck returns
PollingAllowedAlways(check) == TRUE

\* poll: pollingCheck is nil or returns true
PollingAllowed(check) == check

\* a slip: the fetch error is logged and the poll goes on
FetchNeverStops(err) == FALSE

\* poll: FetchQuotas returned an error, poll returns
FetchStops(err) == err

\* a slip: every tick starts a poll in a goroutine of its own
AtSelectWhilePolling(a) == a.pc \in {"select", "process"}

\* Run: the goroutine stands at the select of its loop, no poll is running
AtSelect(a) == a.pc = "select"

\* Process with call number calls + 1 to the store still ahead: the tracker and
\* the cycles as that call finds them, err when there is such a call
StateAfter(base, snapshot, calls) ==
    ProcessResult([cycles |-> base.cycles, lastValues |-> base.lastValues,
                   lastResets |-> base.lastResets, hasLastValues |-> base.hasLastValues,
                   onReset |-> onReset, ops |-> 0, failAt |-> calls + 1,
                   err |-> FALSE, visited |-> << >>, fired |-> << >>,
                   firedAt |-> << >>],
                  snapshot)

\* a slip: poll returns when the snapshot could not be stored
InsertErrorReturns(err) == err

\* poll only logs the error of InsertCopilotSnapshot and goes on
InsertStops(err) == FALSE

\* poll, from its first statement to the call of tracker.Process; FetchQuotas
\* on a cancelled context returns the context's error, and no insert succeeds
\* on a closed database
EnterPoll(from, fetchErr, insertErr, snapshot) ==
    /\ ctx = "cancelled" => fetchErr
    /\ db # "open" => insertErr
    /\ LET a == [agent EXCEPT !.began = from, !.did = {}, !.enabled = @ \/ polling,
                              !.fetched = IF ~polling THEN "none"
                                          ELSE IF fetchErr THEN "error" ELSE "ok",
                              !.inserted = "none", !.processed = "none",
                              !.erred = @ \/ agent.inserted = "error"
                                          \/ agent.processed = "error"]
       IN  IF ~PollingAllowed(polling)
           THEN /\ agent' = [a EXCEPT !.pc = "select"]
                /\ UNCHANGED <<trackerVars, now, latest>>
           ELSE IF FetchStops(fetchErr)
           THEN /\ agent' = [a EXCEPT !.pc = "select", !.did = {"fetch"}]
                /\ UNCHANGED <<trackerVars, now, latest>>
           ELSE IF InsertStops(insertErr)
           THEN /\ snapshot.capturedAt > now
                /\ now' = snapshot.capturedAt
                /\ agent' = [a EXCEPT !.pc = "select", !.did = {"fetch", "insert"},
                                      !.inserted = "error"]
                /\ UNCHANGED <<trackerVars, latest>>
           ELSE /\ snapshot.capturedAt > now
                /\ now' = snapshot.capturedAt
                /\ latest' = IF insertErr THEN latest
                             ELSE InsertCopilotSnapshot(latest, snapshot)
                /\ agent' = [a EXCEPT !.pc = "process",
                                      !.did = {"fetch", "insert", "process"},
                                      !.inserted = IF insertErr THEN "error" ELSE "ok",
                                      !.running = @ + 1,
                                      !.inflight = <<[snapshot |-> snapshot,
                                                      base |-> [cycles |-> cycles,
                                                                lastValues |-> lastValues,
                                                                lastResets |-> lastResets,
                                                                hasLastValues |-> hasLastValues],
                                                      calls |-> 0]>>]
                /\ UNCHANGED trackerVars

\* Run: the poll made before the ticker is created
RunStart(fetchErr, insertErr, snapshot) ==
    /\ agent.pc = "start"
    /\ EnterPoll("start", fetchErr, insertErr, snapshot)
    /\ UNCHANGED <<ghostVars, webVars, sessionVars, summary, asking, ticker, ctx, polling, db>>

\* the ticker fires: ticker.C holds one tick, a tick that finds it full is dropped
Tick ==
    /\ agent.pc = "select" \/ (agent.pc = "process" /\ agent.began = "tick")
    /\ ~ticker
    /\ ticker' = TRUE
    /\ UNCHANGED <<trackerVars, ghostVars, webVars, sessionVars, now, latest, summary, asking, agent, ctx, polling, db>>

\* Run: select takes the tick and calls poll
SelectTick(fetchErr, insertErr, snapshot) ==
    /\ AtSelect(agent)
    /\ ticker
    /\ ticker' = FALSE
    /\ EnterPoll("tick", fetchErr, insertErr, snapshot)
    /\ UNCHANGED <<ghostVars, webVars, sessionVars, summary, asking, ctx, polling, db>>

\* a slip: the loop goes on when the context is done
SelectDoneGoesOn ==
    /\ AtSelect(agent)
    /\ ctx = "cancelled"
    /\ UNCHANGED vars

\* Run: select takes ctx.Done() and Run returns nil
SelectDone ==
    /\ AtSelect(agent)
    /\ ctx = "cancelled"
    /\ agent' = [agent EXCEPT !.pc = "returned", !.result = "nil"]
    /\ UNCHANGED <<trackerVars, ghostVars, webVars, sessionVars, now, latest, summary, asking, ticker, ctx, polling, db>>

\* Process makes its next call to the store; a call that fails (as every call
\* on a closed database does) makes Process return the error, which poll only
\* logs.  When Process has returned, poll runs the notifier over the quotas
\* and reports the poll to the session manager
ProcessStoreCall(fails) ==
    /\ agent.pc = "process"
    /\ db # "open" => fails
    /\ LET f == agent.inflight[1]
       IN  \E r \in {StateAfter(f.base, f.snapshot,
                                IF fails THEN f.calls ELSE f.calls + 1)} :
            /\ fails => r.err
            /\ cycles' = r.cycles
            /\ lastValues' = r.lastValues
            /\ lastResets' = r.lastResets
            /\ hasLastValues' = r.hasLastValues
            /\ agent' = IF ~fails /\ r.err
                        THEN [agent EXCEPT !.inflight = <<[f EXCEPT !.calls = @ + 1]>>]
                        ELSE [agent EXCEPT !.pc = "select", !.inflight = << >>,
                                           !.running = @ - 1,
                                           !.processed = IF fails THEN "error" ELSE "ok",
                                           !.did = @ \cup {"notify", "report"}]
    /\ UNCHANGED <<ghostVars, webVars, sessionVars, now, latest, summary, asking, ticker, ctx, polling, db>>

\* a store call of Process returns; it fails only when the database is closed
StoreCallReturns == ProcessStoreCall(db # "open")

\* run in main.go: a signal arrives and the context is cancelled
Cancel ==
    /\ ctx = "live"
    /\ ctx' = "cancelled"
    /\ UNCHANGED <<trackerVars, ghostVars, webVars, sessionVars, now, latest, summary, asking, agent, ticker, polling, db>>

\* run in main.go: after the sleep and the server's shutdown the database is closed
CloseDatabase ==
    /\ ctx = "cancelled"
    /\ db = "open"
    /\ db' = "closed"
    /\ UNCHANGED <<trackerVars, ghostVars, webVars, sessionVars, now, latest, summary, asking, agent, ticker, ctx, polling>>

\* the setting pollingCheck reads is switched
SetPollingCheck ==
    /\ polling' = ~polling
    /\ UNCHANGED <<trackerVars, ghostVars, webVars, sessionVars, now, latest, summary, asking, agent, ticker, ctx, db>>

\* minutes from the latest poll to the UsageSummary call made next to the agent
AgentWallOffset == RateWindowMinutes

NextAgent ==
    \/ \E fetchErr \in BOOLEAN, snapshot \in AgentSnapshots :
          RunStart(fetchErr, db # "open", snapshot)
    \/ Tick
    \/ \E fetchErr \in BOOLEAN, snapshot \in AgentSnapshots :
          SelectTick(fetchErr, db # "open", snapshot)
    \/ SelectDone
    \/ StoreCallReturns
    \/ Cancel
    \/ CloseDatabase
    \/ SetPollingCheck
    \/ UsageSummaryCall("premium_interactions", now + AgentWallOffset, 0)

SpecAgent == Init /\ [][NextAgent]_vars

\* Run is called and its first poll is made
RunStarts ==
    \E fetchErr \in BOOLEAN, snapshot \in AgentSnapshots :
        RunStart(fetchErr, db # "open", snapshot)

\* Run and the shutdown of the program, with polling enabled and no summary asked
NextRun ==
    \/ RunStarts
    \/ Tick
    \/ \E fetchErr \in BOOLEAN, snapshot \in AgentSnapshots :
          SelectTick(fetchErr, db # "open", snapshot)
    \/ SelectDone
    \/ StoreCallReturns
    \/ Cancel
    \/ CloseDatabase

\* the goroutine that called Run gets to run, a store call returns, and a select
\* whose ctx.Done() case stays ready takes it in the end, select choosing at
\* random among the ready cases
SpecRunFair ==
    /\ Init /\ [][NextRun]_vars
    /\ WF_vars(RunStarts)
    /\ WF_vars(StoreCallReturns)
    /\ WF_vars(SelectDone)

\* Run over a store whose calls can fail one by one: the insert of a snapshot
\* and any store call of Process
NextFaulty ==
    \/ \E fetchErr \in BOOLEAN, insertErr \in BOOLEAN, snapshot \in AgentSnapshots :
          RunStart(fetchErr, insertErr, snapshot)
    \/ Tick
    \/ \E fetchErr \in BOOLEAN, insertErr \in BOOLEAN, snapshot \in AgentSnapshots :
          SelectTick(fetchErr, insertErr, snapshot)
    \/ SelectDone
    \/ \E fails \in BOOLEAN : ProcessStoreCall(fails)
    \/ Cancel

SpecFaulty == Init /\ [][NextFaulty]_vars

\* capturedAt of the snapshots of SpecReads runs over 1..MaxReadTime
MaxReadTime == 3

ReadSnapshots ==
    {CopilotSnapshot(capturedAt, <<d>>,
                     <<CopilotQuotaUnlimited("premium_interactions", p[1], p[2], FALSE)>>) :
        capturedAt \in 1..MaxReadTime, d \in ResetDates, p \in AgentReadings}

\* UsageSummary is called and makes its first query, for the active cycle
SummaryQueryActive(quotaName) ==
    /\ asking = << >>
    /\ asking' = <<[pc |-> "history", quotaName |-> quotaName,
                    activeCycle |-> QueryActiveCopilotCycle(cycles, quotaName),
                    history |-> << >>]>>
    /\ UNCHANGED <<trackerVars, ghostVars, now, latest, summary, agentVars, webVars,
                   sessionVars>>

\* the summary a call returns at the wall-clock time of the agent's summaries
SummaryReturned(a, history, latestRead) ==
    SummaryRecord(a.quotaName, now + AgentWallOffset, 0,
                  SummaryFrom(a.activeCycle, history, latestRead, a.quotaName,
                              now + AgentWallOffset, 0))

\* UsageSummary makes its second query, for the closed cycles, and returns
\* when its first query found no active cycle
SummaryQueryHistory ==
    /\ asking # << >>
    /\ asking[1].pc = "history"
    /\ LET a == asking[1]
           history == QueryCopilotCycleHistory(cycles, a.quotaName)
       IN  IF a.activeCycle = << >>
           THEN /\ summary' = SummaryReturned(a, history, << >>)
                /\ asking' = << >>
           ELSE /\ asking' = <<[a EXCEPT !.pc = "latest", !.history = history]>>
                /\ UNCHANGED summary
    /\ UNCHANGED <<trackerVars, ghostVars, now, latest, agentVars, webVars, sessionVars>>

\* UsageSummary makes its third query, for the latest snapshot, and returns
SummaryQueryLatest ==
    /\ asking # << >>
    /\ asking[1].pc = "latest"
    /\ summary' = SummaryReturned(asking[1], asking[1].history, QueryLatestCopilot(latest))
    /\ asking' = << >>
    /\ UNCHANGED <<trackerVars, ghostVars, now, latest, agentVars, webVars, sessionVars>>

\* the agent polling while another goroutine asks for summaries, every store
\* call of the two a step of its own
NextReads ==
    \/ \E snapshot \in ReadSnapshots : RunStart(FALSE, FALSE, snapshot)
    \/ Tick
    \/ \E snapshot \in ReadSnapshots : SelectTick(FALSE, FALSE, snapshot)
    \/ StoreCallReturns
    \/ SummaryQueryActive("premium_interactions")
    \/ SummaryQueryHistory
    \/ SummaryQueryLatest

SpecReads == Init /\ [][NextReads]_vars

(***************************************************************************)
(* The web server's authentication: the SessionStore and the middleware    *)
(* in front of the protected handler.                                      *)
(***************************************************************************)
\* the clock of the SessionStore runs over 0..MaxClock
MaxClock == 2

\* sessionMaxAge, in units of the clock: a token of time t is good up to t + 1
SessionMaxAge == 1

\* the tokens generateToken can come up with
GeneratedTokens == {"t1"}

\* the values a session cookie can carry: a generated token, one that was never
\* generated, and the empty string
CookieValues == GeneratedTokens \cup {"t0", ""}

\* request paths, as sequences of characters
Paths ==
    {<<"/">>, <<"/", "x">>,
     <<"/", "login">>, <<"/", "login", "/">>,
     <<"/", "static", "/", "x">>, <<"/", "static">>,
     <<"/", "api", "/", "x">>, <<"/", "api">>}

\* what a Basic header's payload can decode to
Decoded ==
    {<<"a", ":", "b">>, <<"a", ":">>, <<":", "b">>, <<"a", "b">>,
     <<"a", ":", "b", ":", "b">>}

\* the Authorization headers: none, another scheme, and Basic with an empty
\* payload, one that is no base64, or the base64 of a text
Headers ==
    {[scheme |-> "none", payload |-> "empty", text |-> << >>],
     [scheme |-> "Bearer", payload |-> "base64", text |-> <<"a", ":", "b">>],
     [scheme |-> "Basic", payload |-> "empty", text |-> << >>],
     [scheme |-> "Basic", payload |-> "invalid", text |-> << >>]}
    \cup {[scheme |-> "Basic", payload |-> "base64", text |-> d] : d \in Decoded}

\* the requests: a path, the session cookie if there is one, the header
Requests == [path : Paths, cookie : {<< >>} \cup {<<v>> : v \in CookieValues}, header : Headers]

\* strings.HasPrefix
HasPrefix(str, prefix) ==
    Len(str) >= Len(prefix) /\ SubSeq(str, 1, Len(prefix)) = prefix

\* strings.SplitN(str, ":", 2): the parts before and after the first colon
SplitN2(str) ==
    LET colons == {i \in 1..Len(str) : str[i] = ":"}
    IN  IF colons = {} THEN <<str>>
        ELSE <<SubSeq(str, 1, SetMin(colons) - 1), SubSeq(str, SetMin(colons) + 1, Len(str))>>

\* extractCredentials
extractCredentials(header) ==
    IF header.scheme # "Basic" \/ header.payload # "base64"
    THEN [ok |-> FALSE, username |-> << >>, password |-> << >>]
    ELSE LET parts == SplitN2(header.text)
         IN  IF Len(parts) # 2 THEN [ok |-> FALSE, username |-> << >>, password |-> << >>]
             ELSE [ok |-> TRUE, username |-> parts[1], password |-> parts[2]]

\* isStaticAsset
isStaticAsset(path) == HasPrefix(path, <<"/", "static", "/">>)

\* a slip: Basic Auth is taken on every path
isApiAnyPath(path) == TRUE

\* SessionAuthMiddleware: the path is one of the API
isApi(path) == HasPrefix(path, <<"/", "api", "/">>)

\* a slip: delete leaves the map as it is
DeleteNothing(tokens, token) == tokens

\* delete(s.tokens, token)
Delete(tokens, token) == [x \in (DOMAIN tokens) \ {token} |-> tokens[x]]

\* SessionStore.ValidateToken: the answer, and the tokens with an expired one deleted
ValidateToken(store, token, t) ==
    IF token = "" \/ token \notin DOMAIN store.tokens
    THEN [ok |-> FALSE, store |-> store]
    ELSE IF t > store.tokens[token]
    THEN [ok |-> FALSE, store |-> [store EXCEPT !.tokens = Delete(@, token)]]
    ELSE [ok |-> TRUE, store |-> store]

\* SessionAuthMiddleware: the answer to a request, and the store after it
SessionAuthMiddleware(store, r, t) ==
    IF isStaticAsset(r.path) \/ r.path = <<"/", "login">>
    THEN [answer |-> "next", store |-> store]
    ELSE LET v == IF r.cookie = << >> THEN [ok |-> FALSE, store |-> store]
                  ELSE ValidateToken(store, r.cookie[1], t)
             c == extractCredentials(r.header)
         IN  IF v.ok THEN [answer |-> "next", store |-> v.store]
             ELSE IF isApi(r.path)
             THEN IF c.ok /\ c.username = store.username /\ c.password = store.password
                  THEN [answer |-> "next", store |-> v.store]
                  ELSE [answer |-> "401", store |-> v.store]
             ELSE [answer |-> "redirect", store |-> v.store]

\* what every step of the web server leaves alone
notWeb == <<trackerVars, ghostVars, now, latest, summary, asking, agentVars, sessionVars>>

\* a token Authenticate stored that was passed to Invalidate, or whose expiry
\* has passed at time t
Dead(token, t) ==
    /\ token \in DOMAIN issued.tokens
    /\ issued.tokens[token].invalidated \/ t > issued.tokens[token].expiry

\* SessionStore.Authenticate: with the right credentials a token generateToken
\* never returned before is stored under the lock; otherwise "", false
Authenticate(username, password) ==
    /\ IF username = sessions.username /\ password = sessions.password
       THEN \E token \in GeneratedTokens \ DOMAIN issued.tokens :
              /\ sessions' = [sessions EXCEPT !.tokens = Put(@, token, clock + SessionMaxAge)]
              /\ issued' = [tokens |-> Put(issued.tokens, token,
                                           [expiry |-> clock + SessionMaxAge,
                                            invalidated |-> FALSE]),
                            last |-> <<[ok |-> TRUE, token |-> token]>>]
       ELSE /\ sessions' = sessions
            /\ issued' = [issued EXCEPT !.last = <<[ok |-> FALSE, token |-> ""]>>]
    /\ UNCHANGED <<clock, served, validating, notWeb>>

\* SessionStore.Invalidate: the token is deleted under the lock
Invalidate(token) ==
    /\ sessions' = [sessions EXCEPT !.tokens = Delete(@, token)]
    /\ issued' = IF token \in DOMAIN issued.tokens
                 THEN [issued EXCEPT !.tokens[token].invalidated = TRUE]
                 ELSE issued
    /\ UNCHANGED <<clock, served, validating, notWeb>>

\* time passes
ClockTick ==
    /\ clock < MaxClock
    /\ clock' = clock + 1
    /\ UNCHANGED <<sessions, served, issued, validating, notWeb>>

\* ValidateToken is called: the empty token is refused at once
ValidateBegin(c, token) ==
    /\ validating[c].pc \in {"idle", "done"}
    /\ validating' = [validating EXCEPT ![c] =
                         [pc |-> IF token = "" THEN "done" ELSE "read",
                          token |-> token, expiry |-> << >>,
                          known |-> token \in DOMAIN issued.tokens,
                          dead |-> Dead(token, clock),
                          result |-> IF token = "" THEN "false" ELSE "none"]]
    /\ UNCHANGED <<sessions, clock, served, issued, notWeb>>

\* ValidateToken: the expiry is read under the read lock; a token that is not
\* in the map is refused
ValidateRead(c) ==
    /\ validating[c].pc = "read"
    /\ LET v == validating[c]
       IN  validating' = [validating EXCEPT ![c] =
                             IF v.token \in DOMAIN sessions.tokens
                             THEN [v EXCEPT !.pc = "check",
                                            !.expiry = <<sessions.tokens[v.token]>>]
                             ELSE [v EXCEPT !.pc = "done", !.result = "false"]]
    /\ UNCHANGED <<sessions, clock, served, issued, notWeb>>

\* ValidateToken: time.Now().After(expiry), with the expiry read before
ValidateCheck(c) ==
    /\ validating[c].pc = "check"
    /\ LET v == validating[c]
       IN  validating' = [validating EXCEPT ![c] =
                             IF clock > v.expiry[1]
                             THEN [v EXCEPT !.pc = "delete"]
                             ELSE [v EXCEPT !.pc = "done", !.result = "true"]]
    /\ UNCHANGED <<sessions, clock, served, issued, notWeb>>

\* ValidateToken: the expired token is deleted under the lock and refused
ValidateDelete(c) ==
    /\ validating[c].pc = "delete"
    /\ sessions' = [sessions EXCEPT !.tokens = Delete(@, validating[c].token)]
    /\ validating' = [validating EXCEPT ![c].pc = "done", ![c].result = "false"]
    /\ UNCHANGED <<clock, served, issued, notWeb>>

\* a request arrives at the middleware
Serve(r) ==
    /\ \E m \in {SessionAuthMiddleware(sessions, r, clock)} :
        /\ sessions' = m.store
        /\ served' = <<[request |-> r, answer |-> m.answer]>>
    /\ UNCHANGED <<clock, issued, validating, notWeb>>

NextWeb ==
    \/ \E username \in {Username, Password}, password \in {Password} :
            Authenticate(username, password)
    \/ \E token \in CookieValues : Invalidate(token)
    \/ ClockTick
    \/ \E r \in Requests : Serve(r)

SpecWeb == Init /\ [][NextWeb]_vars

\* the SessionStore under calls of Authenticate, Invalidate and ValidateToken
\* from several goroutines, ValidateToken going one lock section a step
NextTokens ==
    \/ \E username \in {Username, Password}, password \in {Password} :
            Authenticate(username, password)
    \/ \E token \in CookieValues : Invalidate(token)
    \/ ClockTick
    \/ \E c \in Callers, token \in CookieValues : ValidateBegin(c, token)
    \/ \E c \in Callers : ValidateRead(c)
    \/ \E c \in Callers : ValidateCheck(c)
    \/ \E c \in Callers : ValidateDelete(c)

SpecTokens == Init /\ [][NextTokens]_vars

(***************************************************************************)
(* Agent.Run of the generic agent and the session it keeps in the store.   *)
(* The store is taken by its contract: CreateSession adds an open row,     *)
(* CloseSession ends the row of the id it is given, CloseOrphanedSessions  *)
(* ends every row that is still open, IncrementSnapshotCount counts a      *)
(* stored snapshot on the row.  What poll hands to the generic tracker is  *)
(* left out.                                                               *)
(***************************************************************************)

\* calls of Run, each in a process of its own, and polls of one Run
MaxRuns == 3
MaxPolls == 2

CreateSession(rows, id) == Append(rows, [id |-> id, ended |-> FALSE, snapshots |-> 0])

CloseSession(rows, id) ==
    [i \in DOMAIN rows |-> IF rows[i].id = id THEN [rows[i] EXCEPT !.ended = TRUE]
                           ELSE rows[i]]

CloseOrphanedSessions(rows) == [i \in DOMAIN rows |-> [rows[i] EXCEPT !.ended = TRUE]]

IncrementSnapshotCount(rows, id) ==
    [i \in DOMAIN rows |-> IF rows[i].id = id THEN [rows[i] EXCEPT !.snapshots = @ + 1]
                           ELSE rows[i]]

\* the ids of the rows that are not ended
OpenSessions(rows) == {rows[i].id : i \in {j \in DOMAIN rows : ~rows[j].ended}}

\* uuid.New: an id no earlier call returned
NewUUID(r) == r.runs + 1

\* a slip: Run goes on when the session could not be created
CreateErrorIgnored(err) == FALSE

\* Run returns the error of CreateSession
CreateErrorReturns(err) == err

\* Run up to its first poll: orphaned sessions are closed (an error is only
\* logged), the session id is drawn and the session is created; the deferred
\* CloseSession is registered only when that succeeded
AgentRun(orphanErr, createErr) ==
    /\ run.pc = "start"
    /\ LET id == NewUUID(run)
           rows == IF orphanErr THEN sessionRows ELSE CloseOrphanedSessions(sessionRows)
           r == [run EXCEPT !.sessionID = id, !.runs = @ + 1,
                            !.orphans = IF orphanErr THEN {} ELSE OpenSessions(sessionRows)]
       IN  IF CreateErrorReturns(createErr)
           THEN /\ sessionRows' = rows
                /\ run' = [r EXCEPT !.pc = "returned", !.result = "error"]
           ELSE /\ sessionRows' = IF createErr THEN rows ELSE CreateSession(rows, id)
                /\ run' = [r EXCEPT !.pc = "poll"]
    /\ UNCHANGED <<trackerVars, ghostVars, now, latest, summary, asking, agentVars, webVars>>

\* Agent.poll, as far as the session goes: the fetch fails on a cancelled
\* context, and a snapshot that was stored is counted on the session
AgentPoll(r, fetchErr, insertErr) ==
    /\ r.ctx = "cancelled" => fetchErr
    /\ r.polls < MaxPolls
    /\ run' = [r EXCEPT !.pc = "select", !.polls = @ + 1]
    /\ sessionRows' = IF fetchErr \/ insertErr THEN sessionRows
                      ELSE IncrementSnapshotCount(sessionRows, r.sessionID)

\* Run: the poll made before the ticker is created
AgentFirstPoll(fetchErr, insertErr) ==
    /\ run.pc = "poll"
    /\ AgentPoll(run, fetchErr, insertErr)
    /\ UNCHANGED <<trackerVars, ghostVars, now, latest, summary, asking, agentVars, webVars>>

\* the ticker fires
AgentTick ==
    /\ run.pc = "select"
    /\ ~run.ticker
    /\ run' = [run EXCEPT !.ticker = TRUE]
    /\ UNCHANGED <<trackerVars, ghostVars, now, latest, summary, asking, agentVars, webVars,
                   sessionRows>>

\* Run: select takes the tick and calls poll
AgentSelectTick(fetchErr, insertErr) ==
    /\ run.pc = "select"
    /\ run.ticker
    /\ AgentPoll([run EXCEPT !.ticker = FALSE], fetchErr, insertErr)
    /\ UNCHANGED <<trackerVars, ghostVars, now, latest, summary, asking, agentVars, webVars>>

\* Run: select takes ctx.Done() and Run returns nil; the deferred functions
\* stop the ticker and call CloseSession, whose error is only logged
AgentSelectDone(closeErr) ==
    /\ run.pc = "select"
    /\ run.ctx = "cancelled"
    /\ run' = [run EXCEPT !.pc = "returned", !.result = "nil", !.ticker = FALSE,
                          !.closeCalls = Append(@, run.sessionID)]
    /\ sessionRows' = IF closeErr THEN sessionRows
                      ELSE CloseSession(sessionRows, run.sessionID)
    /\ UNCHANGED <<trackerVars, ghostVars, now, latest, summary, asking, agentVars, webVars>>

\* the context handed to Run is cancelled
AgentCancel ==
    /\ run.pc # "returned"
    /\ run.ctx = "live"
    /\ run' = [run EXCEPT !.ctx = "cancelled"]
    /\ UNCHANGED <<trackerVars, ghostVars, now, latest, summary, asking, agentVars, webVars,
                   sessionRows>>

\* the process ends, by the return of Run or by being killed where it stands,
\* and the program is started again over the same database
AgentProcessEnds ==
    /\ run.pc # "start"
    /\ run.runs < MaxRuns
    /\ run' = New(run.runs)
    /\ UNCHANGED <<trackerVars, ghostVars, now, latest, summary, asking, agentVars, webVars,
                   sessionRows>>

NextSession ==
    \/ \E orphanErr \in BOOLEAN, createErr \in BOOLEAN : AgentRun(orphanErr, createErr)
    \/ \E fetchErr \in BOOLEAN, insertErr \in BOOLEAN : AgentFirstPoll(fetchErr, insertErr)
    \/ AgentTick
    \/ \E fetchErr \in BOOLEAN, insertErr \in BOOLEAN : AgentSelectTick(fetchErr, insertErr)
    \/ \E closeErr \in BOOLEAN : AgentSelectDone(closeErr)
    \/ AgentCancel
    \/ AgentProcessEnds

SpecSession == Init /\ [][NextSession]_vars

(***************************************************************************)
(* Vocabulary of the properties.                                           *)
(***************************************************************************)
Premium == "premium_interactions"

\* the open cycle of n in the store
Active(n) == QueryActiveCopilotCycle(cycles, n)

\* the rows of quota name n
RowsOf(rows, n) == {i \in 1..Len(rows) : rows[i].quotaName = n}

\* this step is a Process call
ProcessStep == now' > now

\* this step is a Process call in which the per-quota update of n ran to its end
StepCompleted(n) ==
    /\ ProcessStep
    /\ \E i \in 1..Len(visited') : visited'[i] = n
    /\ lastError' # <<n>>

\* the instant a reset date string stands for
ParseRFC3339(str) == IF str = << >> THEN << >> ELSE <<str[1][1] - str[1][2]>>

\* the used value of a recorded reading
UsedOf(reading) == reading.entitlement - reading.remaining

\* the tracker holds nothing yet: it was just built, or no call of it got anywhere
FreshTracker == ~hasLastValues /\ DOMAIN lastValues = {} /\ DOMAIN lastResets = {}

(***************************************************************************)
(* C1: after any sequence of Process calls on one store, calls that detect *)
(* resets and calls in which a store call fails part-way included, the     *)
(* store holds at most one active cycle (cycleEnd unset) per quota name.   *)
(***************************************************************************)
C1_AtMostOneActiveCycle ==
    \A n \in Names : Cardinality(ActiveRows(cycles, n)) <= 1

\* a reset was handled, a store call failed in some Process call, and a cycle is open
C1_Witness ==
    /\ failures > 0
    /\ Len(QueryCopilotCycleHistory(cycles, Premium)) > 0
    /\ Active(Premium) # << >>

(***************************************************************************)
(* C5: while a cycle stays open, its stored peakUsed and totalDelta never  *)
(* decrease from one Process call to the next.                             *)
(***************************************************************************)
C5_StatsNeverDecrease ==
    [][\A i \in 1..Len(cycles) :
          (cycles[i].cycleEnd = << >> /\ cycles'[i].cycleEnd = << >>)
          => /\ cycles'[i].peakUsed >= cycles[i].peakUsed
             /\ cycles'[i].totalDelta >= cycles[i].totalDelta]_vars

\* an open cycle that has counted usage and then saw a reading below its peak
C5_Witness ==
    /\ Active(Premium) # << >>
    /\ Active(Premium)[1].totalDelta > 0
    /\ obs[Premium].prev # << >>
    /\ UsedOf(obs[Premium].prev[1]) < Active(Premium)[1].peakUsed

(***************************************************************************)
(* C6: the peakUsed of an active cycle is at least the used value of every *)
(* snapshot whose per-quota update ran to its end since the cycle was      *)
(* opened, the one that opened it included.                                *)
(***************************************************************************)
C6_PeakCoversEveryReading ==
    \A n \in Names :
        (Active(n) # << >> /\ obs[n].maxUsed # << >>)
        => Active(n)[1].peakUsed >= obs[n].maxUsed[1]

\* the latest reading of an open cycle lies below an earlier one, which the peak kept
C6_Witness ==
    /\ Active(Premium) # << >>
    /\ obs[Premium].prev # << >>
    /\ obs[Premium].maxUsed # << >>
    /\ UsedOf(obs[Premium].prev[1]) < obs[Premium].maxUsed[1]
    /\ Active(Premium)[1].peakUsed = obs[Premium].maxUsed[1]

(***************************************************************************)
(* C8: a Process call that completes the update of a quota that had no     *)
(* active cycle creates exactly one cycle row for it, active, with         *)
(* cycleStart = capturedAt, resetDate = the snapshot's reset date (unset   *)
(* if the snapshot has none), peakUsed = the reading's used value and      *)
(* totalDelta = 0.                                                         *)
(***************************************************************************)
C8_FirstObservationOpensCycle ==
    [][\A n \in Names :
          (StepCompleted(n) /\ Active(n) = << >>)
          => /\ Cardinality(RowsOf(cycles', n)) = Cardinality(RowsOf(cycles, n)) + 1
             /\ Cardinality(ActiveRows(cycles', n)) = 1
             /\ LET c == QueryActiveCopilotCycle(cycles', n)[1]
                IN  /\ c.cycleStart = now'
                    /\ c.resetDate = ParseRFC3339(lastResets'[n])
                    /\ c.peakUsed = UsedOf(obs'[n].prev[1])
                    /\ c.totalDelta = 0]_vars

\* a cycle opened by a reading with used = 2 and a reset date, nothing closed before
C8_Witness ==
    /\ Active(Premium) # << >>
    /\ QueryCopilotCycleHistory(cycles, Premium) = << >>
    /\ Active(Premium)[1].cycleStart = now
    /\ Active(Premium)[1].resetDate # << >>
    /\ Active(Premium)[1].peakUsed = 2
    /\ Active(Premium)[1].totalDelta = 0
    /\ lastError = NoError

(***************************************************************************)
(* C9: a Process call on a tracker that holds nothing yet (the first call  *)
(* of a new tracker), whatever the snapshot and the store contain, changes *)
(* no cycle's totalDelta, opens cycles with totalDelta 0 only, and closes  *)
(* no cycle: the missing previous reading is neither a rise nor a drop.    *)
(***************************************************************************)
C9_FirstCallComputesNoDelta ==
    [][(FreshTracker /\ ProcessStep)
       => /\ \A i \in 1..Len(cycles) :
                /\ cycles'[i].totalDelta = cycles[i].totalDelta
                /\ cycles'[i].cycleEnd = cycles[i].cycleEnd
          /\ \A i \in (Len(cycles) + 1)..Len(cycles') : cycles'[i].totalDelta = 0]_vars

\* the first call of a rebuilt tracker came upon an open cycle that had counted
\* usage and whose reset date had passed, with a reading it recorded
C9_Witness ==
    /\ now = 3
    /\ Active(Premium) # << >>
    /\ Active(Premium)[1].cycleStart = 1
    /\ Active(Premium)[1].totalDelta > 0
    /\ Active(Premium)[1].resetDate = <<1>>
    /\ ~own[Premium]
    /\ obs[Premium].prev # << >>
    /\ hasLastValues

(***************************************************************************)
(* More vocabulary of the properties.                                      *)
(***************************************************************************)
\* how often n occurs in a sequence of names
CountIn(seq, n) == Cardinality({i \in 1..Len(seq) : seq[i] = n})

\* the reading of n recorded before this step, and the one this step recorded
PrevReading(n) == obs[n].prev[1]
ThisReading(n) == obs'[n].prev[1]

\* this step closed the cycle of n that was open before it
CycleClosed(n) == ActiveId(cycles', n) # ActiveId(cycles, n)

\* the conditions of the time-based fallback, on two consecutive readings of n
FallbackHolds(n) ==
    /\ Active(n)[1].resetDate # << >>
    /\ now' > Active(n)[1].resetDate[1]
    /\ ThisReading(n).remaining > PrevReading(n).remaining

(***************************************************************************)
(* C2: if the update of a quota ran to its end for a snapshot with reset   *)
(* marker T1 and a later Process call, with no store failure, handles a    *)
(* snapshot with another non-empty marker T2, then for that quota exactly  *)
(* one cycle is closed (the history grows by one), exactly one new cycle   *)
(* is created and is the one active cycle, and a registered onReset is     *)
(* invoked exactly once with the quota's name.                             *)
(***************************************************************************)
C2_MarkerChangeResetsOnce ==
    [][\A n \in Names :
          (/\ StepCompleted(n)
           /\ lastError' = NoError
           /\ obs[n].prev # << >>
           /\ PrevReading(n).marker # << >>
           /\ ThisReading(n).marker # << >>
           /\ ThisReading(n).marker # PrevReading(n).marker)
          => /\ Len(QueryCopilotCycleHistory(cycles', n))
                  = Len(QueryCopilotCycleHistory(cycles, n)) + 1
             /\ Cardinality(RowsOf(cycles', n)) = Cardinality(RowsOf(cycles, n)) + 1
             /\ Cardinality(ActiveRows(cycles', n)) = 1
             /\ CycleClosed(n)
             /\ onReset => CountIn(fired', n) = 1]_vars

\* one snapshot reset both quotas: each has one closed and one open cycle, and
\* the callback ran once for each
C2_Witness ==
    /\ fired = QuotaNames
    /\ lastError = NoError
    /\ \A n \in Names :
          /\ Len(QueryCopilotCycleHistory(cycles, n)) = 1
          /\ Cardinality(ActiveRows(cycles, n)) = 1

(***************************************************************************)
(* C3: when the per-quota update of one quota fails with a storage error,  *)
(* Process still runs the per-quota update of every other quota of the     *)
(* snapshot, those listed after the failing one too, and returns one error *)
(* tagged with the failing quota's name.                                   *)
(***************************************************************************)
C3_FailureDoesNotAbortSiblings ==
    lastError # NoError => skipped = << >>

(***************************************************************************)
(* C4 as stated: with one tracker and no store failure, the totalDelta of  *)
(* the active cycle is the sum of the positive increases of used over the  *)
(* consecutive readings since the cycle was opened, also when the          *)
(* entitlement differs between two readings.                               *)
(***************************************************************************)
C4_DeltaIsSumOfUsedIncreases ==
    \A n \in Names :
        (clean /\ own[n] /\ Active(n) # << >>)
        => Active(n)[1].totalDelta = obs[n].usedInc

(***************************************************************************)
(* C4 amended: with one tracker and no store failure, the totalDelta of    *)
(* the active cycle is the sum of the positive decreases of remaining over *)
(* the consecutive readings since the cycle was opened.                    *)
(***************************************************************************)
C4_DeltaIsSumOfRemainingDecreases ==
    \A n \in Names :
        (clean /\ own[n] /\ Active(n) # << >>)
        => Active(n)[1].totalDelta = obs[n].remDec

\* a cycle that counted usage over readings of differing entitlement
C4_Witness ==
    /\ clean
    /\ own[Premium]
    /\ Active(Premium) # << >>
    /\ Active(Premium)[1].totalDelta > 0
    /\ obs[Premium].usedInc # obs[Premium].remDec

(***************************************************************************)
(* C7 as stated: when used drops or stays flat between two consecutive     *)
(* readings, the marker is unchanged and the fallback does not fire,       *)
(* Process does not close the cycle, adds nothing to totalDelta and leaves *)
(* peakUsed unchanged; a later rise (no store failure, no reset) adds the  *)
(* difference to the lower value.                                          *)
(***************************************************************************)
C7_DropAddsNothing ==
    [][\A n \in Names :
          (StepCompleted(n) /\ obs[n].prev # << >> /\ Active(n) # << >>)
          => /\ (/\ UsedOf(ThisReading(n)) <= UsedOf(PrevReading(n))
                 /\ ThisReading(n).marker = PrevReading(n).marker
                 /\ ~FallbackHolds(n))
                => /\ ~CycleClosed(n)
                   /\ QueryActiveCopilotCycle(cycles', n)[1].totalDelta = Active(n)[1].totalDelta
                   /\ QueryActiveCopilotCycle(cycles', n)[1].peakUsed = Active(n)[1].peakUsed
             /\ (/\ UsedOf(ThisReading(n)) > UsedOf(PrevReading(n))
                 /\ clean'
                 /\ ~CycleClosed(n))
                => QueryActiveCopilotCycle(cycles', n)[1].totalDelta
                      = Active(n)[1].totalDelta + UsedOf(ThisReading(n)) - UsedOf(PrevReading(n))]_vars

(***************************************************************************)
(* C7 amended: the same for two consecutive readings of one entitlement.   *)
(***************************************************************************)
C7_DropAtSameEntitlementAddsNothing ==
    [][\A n \in Names :
          (/\ StepCompleted(n) /\ obs[n].prev # << >> /\ Active(n) # << >>
           /\ ThisReading(n).entitlement = PrevReading(n).entitlement)
          => /\ (/\ UsedOf(ThisReading(n)) <= UsedOf(PrevReading(n))
                 /\ ThisReading(n).marker = PrevReading(n).marker
                 /\ ~FallbackHolds(n))
                => /\ ~CycleClosed(n)
                   /\ QueryActiveCopilotCycle(cycles', n)[1].totalDelta = Active(n)[1].totalDelta
                   /\ QueryActiveCopilotCycle(cycles', n)[1].peakUsed = Active(n)[1].peakUsed
             /\ (/\ UsedOf(ThisReading(n)) > UsedOf(PrevReading(n))
                 /\ clean'
                 /\ ~CycleClosed(n))
                => QueryActiveCopilotCycle(cycles', n)[1].totalDelta
                      = Active(n)[1].totalDelta + UsedOf(ThisReading(n)) - UsedOf(PrevReading(n))]_vars

\* a cycle opened at used = 1 whose next reading dropped to used = 0
C7_Witness ==
    /\ clean
    /\ own[Premium]
    /\ hasLastValues
    /\ Active(Premium) # << >>
    /\ Active(Premium)[1].cycleStart < now
    /\ Active(Premium)[1].peakUsed = 1
    /\ Active(Premium)[1].totalDelta = 0
    /\ obs[Premium].prev # << >>
    /\ UsedOf(obs[Premium].prev[1]) = 0
    /\ visited = <<Premium>>

C11_FallbackFiresExactlyWhen ==
    [][\A n \in Names :
          (/\ StepCompleted(n)
           /\ Active(n) # << >>
           /\ n \in DOMAIN lastResets
           /\ lastResets'[n] = lastResets[n])
          => (CycleClosed(n)
                <=> /\ Active(n)[1].resetDate # << >>
                    /\ now' > Active(n)[1].resetDate[1]
                    /\ n \in DOMAIN lastValues
                    /\ lastValues'[n] > lastValues[n])]_vars

\* a cycle opened at 1 with reset date 1 was closed by the next snapshot, taken
\* at 2 with the same reset date: the fallback closed it
C11_Witness ==
    /\ now = 2
    /\ lastError = NoError
    /\ Active(Premium) # << >>
    /\ Active(Premium)[1].cycleStart = 2
    /\ Active(Premium)[1].resetDate = <<1>>
    /\ \E i \in RowsOf(cycles, Premium) :
          /\ cycles[i].cycleStart = 1
          /\ cycles[i].cycleEnd = <<1>>
          /\ cycles[i].resetDate = <<1>>

\* the earlier of two instants
Earlier(t, u) == IF t < u THEN t ELSE u

(***************************************************************************)
(* C12: a cycle closed by a Process call gets as cycleEnd the earlier of   *)
(* the snapshot's capturedAt and the cycle's recorded resetDate            *)
(* (capturedAt when it has none), and keeps the peakUsed and totalDelta it *)
(* had before the call.                                                    *)
(***************************************************************************)
C12_ClosedAtEarlierOfCaptureAndReset ==
    [][\A i \in 1..Len(cycles) :
          (ProcessStep /\ cycles[i].cycleEnd = << >> /\ cycles'[i].cycleEnd # << >>)
          => /\ cycles'[i].cycleEnd =
                   IF cycles[i].resetDate = << >> THEN <<now'>>
                   ELSE <<Earlier(now', cycles[i].resetDate[1])>>
             /\ cycles'[i].peakUsed = cycles[i].peakUsed
             /\ cycles'[i].totalDelta = cycles[i].totalDelta]_vars

\* a cycle that had counted usage was closed at its reset date by a snapshot
\* taken after it
C12_Witness ==
    /\ Active(Premium) # << >>
    /\ \E i \in RowsOf(cycles, Premium) :
          /\ cycles[i].cycleEnd # << >>
          /\ cycles[i].cycleEnd = cycles[i].resetDate
          /\ cycles[i].cycleEnd[1] < Active(Premium)[1].cycleStart
          /\ cycles[i].totalDelta > 0

\* the marker test and the fallback test of reset detection, on the tracker's
\* records before a step and the reading of n the step recorded
MarkerDetects(n) ==
    /\ n \in DOMAIN lastResets
    /\ lastResets[n] # << >>
    /\ lastResets'[n] # << >>
    /\ lastResets'[n] # lastResets[n]

FallbackDetects(n) ==
    /\ Active(n)[1].resetDate # << >>
    /\ now' > Active(n)[1].resetDate[1]
    /\ n \in DOMAIN lastValues
    /\ lastValues'[n] > lastValues[n]

(***************************************************************************)
(* C13: when a snapshot carries several quota names and a reset is         *)
(* detected for one of them and not for another, the other keeps its       *)
(* active cycle (same cycle, same cycleStart, no new history entry) and    *)
(* its peakUsed and totalDelta are updated from that snapshot.             *)
(***************************************************************************)
C13_ResetOfOneLeavesOthers ==
    [][\A n, m \in Names :
          (/\ n # m
           /\ StepCompleted(n) /\ StepCompleted(m)
           /\ Active(n) # << >> /\ CycleClosed(n)
           /\ Active(m) # << >> /\ ~MarkerDetects(m) /\ ~FallbackDetects(m))
          => /\ ~CycleClosed(m)
             /\ QueryActiveCopilotCycle(cycles', m)[1].cycleStart = Active(m)[1].cycleStart
             /\ QueryCopilotCycleHistory(cycles', m) = QueryCopilotCycleHistory(cycles, m)
             /\ QueryActiveCopilotCycle(cycles', m)[1].peakUsed
                   = Max(Active(m)[1].peakUsed, UsedOf(ThisReading(m)))
             /\ QueryActiveCopilotCycle(cycles', m)[1].totalDelta
                   = Active(m)[1].totalDelta
                     + (IF hasLastValues /\ m \in DOMAIN lastValues
                        THEN Positive(lastValues[m] - lastValues'[m]) ELSE 0)]_vars

\* the snapshot taken at 2 reset the premium quota alone; the chat cycle
\* opened at 1 went on and counted the usage of that snapshot
C13_Witness ==
    /\ now = 2
    /\ lastError = NoError
    /\ Len(QueryCopilotCycleHistory(cycles, Premium)) = 1
    /\ Active(Premium) # << >>
    /\ Active(Premium)[1].cycleStart = 2
    /\ QueryCopilotCycleHistory(cycles, "chat") = << >>
    /\ Active("chat") # << >>
    /\ Active("chat")[1].cycleStart = 1
    /\ Active("chat")[1].totalDelta = 1
    /\ Active("chat")[1].peakUsed = 1

(***************************************************************************)
(* C14: whenever onReset runs, the store it finds holds exactly one active *)
(* cycle of the quota it is told of, and the cycle that was reset is among *)
(* the closed cycles of that quota.                                        *)
(***************************************************************************)
C14_CallbackSeesClosedAndReopened ==
    /\ Len(firedAt) = Len(fired)
    /\ \A k \in 1..Len(fired) :
          /\ Cardinality(ActiveRows(firedAt[k].rows, fired[k])) = 1
          /\ firedAt[k].rows[firedAt[k].closed].quotaName = fired[k]
          /\ firedAt[k].rows[firedAt[k].closed].cycleEnd # << >>
          /\ QueryActiveCopilotCycle(firedAt[k].rows, fired[k])[1].id > firedAt[k].closed
          /\ QueryActiveCopilotCycle(firedAt[k].rows, fired[k])[1].cycleStart = now

\* the callback ran for both quotas of one snapshot
C14_Witness ==
    /\ Len(fired) = 2
    /\ fired[1] # fired[2]
    /\ \A k \in 1..Len(fired) :
          Len(QueryCopilotCycleHistory(firedAt[k].rows, fired[k])) = 1

(***************************************************************************)
(* C15: once a cycle is closed, no later step changes its cycleStart,      *)
(* cycleEnd, peakUsed or totalDelta, and it never becomes active again.    *)
(***************************************************************************)
C15_ClosedCycleIsImmutable ==
    [][\A i \in 1..Len(cycles) :
          cycles[i].cycleEnd # << >>
          => /\ i <= Len(cycles')
             /\ cycles'[i].cycleEnd = cycles[i].cycleEnd
             /\ cycles'[i].cycleStart = cycles[i].cycleStart
             /\ cycles'[i].peakUsed = cycles[i].peakUsed
             /\ cycles'[i].totalDelta = cycles[i].totalDelta
             /\ cycles'[i].quotaName = cycles[i].quotaName]_vars

\* a cycle was closed, and a later snapshot of the same quota was handled and
\* counted into the cycle that followed it
C15_Witness ==
    /\ lastError = NoError
    /\ visited = <<Premium>>
    /\ Active(Premium) # << >>
    /\ Active(Premium)[1].cycleStart < now
    /\ Active(Premium)[1].totalDelta > 0
    /\ \E i \in RowsOf(cycles, Premium) :
          /\ cycles[i].cycleEnd # << >>
          /\ cycles[i].peakUsed < Active(Premium)[1].peakUsed

(***************************************************************************)
(* Vocabulary of the properties of UsageSummary.                           *)
(***************************************************************************)
\* this step is a UsageSummary call (one that returns what the call before it
\* returned leaves no trace and is covered by that call)
SummaryStep == summary' # summary

\* what the call of this step was asked, and what it returned
Asked == summary'[1]
Returned == summary'[1].value[1]

\* the call of this step met no failing store call
Answered == SummaryStep /\ Asked.failAt = 0

IsZeroFloat(q) == q.num = 0 /\ q.den # 0

(***************************************************************************)
(* C16: UsageSummary for a quota name with no active and no closed cycle,  *)
(* the store answering, returns no error and a summary with                *)
(* completedCycles = 0 and avgPerCycle, peakCycle, totalTracked,           *)
(* currentRate and projectedUsage all zero.                                *)
(***************************************************************************)
C16_SummaryOfUnseenQuotaIsZero ==
    [][(Answered /\ RowsOf(cycles, Asked.quotaName) = {})
       => /\ ~Asked.err
          /\ Asked.value # << >>
          /\ Returned.quotaName = Asked.quotaName
          /\ Returned.completedCycles = 0
          /\ IsZeroFloat(Returned.avgPerCycle)
          /\ Returned.peakCycle = 0
          /\ Returned.totalTracked = 0
          /\ IsZeroFloat(Returned.currentRate)
          /\ Returned.projectedUsage = 0]_vars

\* the summary of the chat quota, never seen, asked of a store that holds a
\* snapshot and cycles of the premium quota
C16_Witness ==
    /\ summary # << >>
    /\ summary[1].quotaName = "chat"
    /\ summary[1].failAt = 0
    /\ ~summary[1].err
    /\ latest # << >>
    /\ Active(Premium) # << >>
    /\ QueryCopilotCycleHistory(cycles, Premium) # << >>

\* the closed cycles of quota name n, as a set of rows of the table
ClosedRows(rows, n) == {i \in RowsOf(rows, n) : rows[i].cycleEnd # << >>}

\* the sum of totalDelta and the greatest peakUsed (0 for none) over a set of rows
RECURSIVE SumDelta(_, _)
SumDelta(rows, S) ==
    IF S = {} THEN 0
    ELSE LET i == CHOOSE x \in S : TRUE
         IN  rows[i].totalDelta + SumDelta(rows, S \ {i})

MaxPeak(rows, S) ==
    IF S = {} THEN 0
    ELSE CHOOSE p \in {rows[i].peakUsed : i \in S} : \A i \in S : rows[i].peakUsed <= p

(***************************************************************************)
(* C17: whatever the store holds, a UsageSummary call that returns a       *)
(* summary returns completedCycles = the number of closed cycles of the    *)
(* quota, avgPerCycle = the sum of their totalDelta divided by their       *)
(* number (0 if none), peakCycle = the greatest peakUsed over the closed   *)
(* and the active cycle, and totalTracked = the sum of totalDelta over the *)
(* closed cycles plus the active cycle's totalDelta.                       *)
(***************************************************************************)
C17_SummaryStatistics ==
    [][(SummaryStep /\ ~Asked.err)
       => LET n      == Asked.quotaName
              closed == ClosedRows(cycles, n)
          IN  /\ Returned.completedCycles = Cardinality(closed)
              /\ IF closed = {} THEN IsZeroFloat(Returned.avgPerCycle)
                 ELSE /\ Returned.avgPerCycle.num = SumDelta(cycles, closed)
                      /\ Returned.avgPerCycle.den = Cardinality(closed)
              /\ Returned.peakCycle = MaxPeak(cycles, closed \cup ActiveRows(cycles, n))
              /\ Returned.totalTracked
                    = SumDelta(cycles, closed \cup ActiveRows(cycles, n))]_vars

\* a summary over one closed cycle that counted usage and an active cycle
\* with the greater peak
C17_Witness ==
    /\ summary # << >>
    /\ ~summary[1].err
    /\ summary[1].quotaName = Premium
    /\ summary[1].value[1].completedCycles = 1
    /\ summary[1].value[1].avgPerCycle = Quotient(1, 1)
    /\ summary[1].value[1].peakCycle = 2
    /\ summary[1].value[1].totalTracked = 1
    /\ Active(Premium) # << >>
    /\ Active(Premium)[1].peakUsed = 2

(***************************************************************************)
(* C18: with the store returning the closed cycles oldest first, the       *)
(* trackingSince of a returned summary is the cycleStart of the oldest     *)
(* closed cycle of the quota, and zero when it has no closed cycle.        *)
(***************************************************************************)
C18_TrackingSinceIsOldestCycleStart ==
    [][(SummaryStep /\ ~Asked.err)
       => LET closed == ClosedRows(cycles, Asked.quotaName)
          IN  Returned.trackingSince =
                 IF closed = {} THEN 0
                 ELSE SetMin({cycles[i].cycleStart : i \in closed})]_vars

(***************************************************************************)
(* C19: a returned summary has a non-zero currentRate only if the quota    *)
(* has an active cycle that has been running for at least 30 minutes at    *)
(* the time of the call and whose totalDelta is greater than 0.            *)
(***************************************************************************)
C19_RateOnlyAfterHalfAnHourOfUsage ==
    [][(SummaryStep /\ ~Asked.err /\ ~IsZeroFloat(Returned.currentRate))
       => /\ Active(Asked.quotaName) # << >>
          /\ Asked.wall - Active(Asked.quotaName)[1].cycleStart >= RateWindowMinutes
          /\ Active(Asked.quotaName)[1].totalDelta > 0]_vars

\* a summary asked exactly 30 minutes after the active cycle began, with a rate
C19_Witness ==
    /\ summary # << >>
    /\ ~summary[1].err
    /\ Active(summary[1].quotaName) # << >>
    /\ summary[1].wall - Active(summary[1].quotaName)[1].cycleStart = RateWindowMinutes
    /\ summary[1].value[1].currentRate.num > 0

\* the latest snapshot of the store reads quota name n as unlimited
LatestUnlimited(n) ==
    /\ latest # << >>
    /\ \E i \in 1..Len(latest[1].quotas) :
          latest[1].quotas[i].name = n /\ latest[1].quotas[i].unlimited

(***************************************************************************)
(* C20: a returned summary has a non-zero projectedUsage only when its     *)
(* currentRate was computed, a reset time is known and the quota is not    *)
(* unlimited; for a quota whose latest reading is unlimited the            *)
(* projectedUsage is 0 whatever its entitlement.                           *)
(***************************************************************************)
C20_NoProjectionForUnlimited ==
    [][(SummaryStep /\ ~Asked.err)
       => /\ Returned.projectedUsage # 0
             => /\ ~IsZeroFloat(Returned.currentRate)
                /\ Returned.resetDate # << >>
                /\ ~LatestUnlimited(Asked.quotaName)
          /\ LatestUnlimited(Asked.quotaName) => Returned.projectedUsage = 0]_vars

\* the call of this step computed a projection: a rate, a reset date still to
\* come and an entitlement
ProjectionComputed ==
    /\ ~IsZeroFloat(Returned.currentRate)
    /\ Returned.resetDate # << >>
    /\ Returned.resetDate[1] > Asked.wall
    /\ Returned.entitlement > 0

(***************************************************************************)
(* C21: whenever UsageSummary computes projectedUsage it is at most the    *)
(* quota's entitlement, and where currentUsed + currentRate x              *)
(* hoursUntilReset is above the entitlement it is exactly the entitlement. *)
(***************************************************************************)
C21_ProjectionNeverAboveEntitlement ==
    [][(SummaryStep /\ ~Asked.err /\ ProjectionComputed)
       => LET cycle   == Active(Asked.quotaName)[1]
              elapsed == Asked.wall - cycle.cycleStart
              left    == Returned.resetDate[1] - Asked.wall
          IN  /\ Returned.projectedUsage <= Returned.entitlement
              /\ Returned.currentUsed * elapsed + cycle.totalDelta * left
                    > Returned.entitlement * elapsed
                 => Returned.projectedUsage = Returned.entitlement]_vars

\* a summary with used 1 of entitlement 2 whose extrapolation to the reset date
\* goes beyond 2 and is reported as 2
C21_Witness ==
    /\ summary # << >>
    /\ ~summary[1].err
    /\ summary[1].value[1].entitlement = 2
    /\ summary[1].value[1].currentUsed = 1
    /\ summary[1].value[1].currentRate.num > 0
    /\ summary[1].value[1].resetDate = <<100>>
    /\ summary[1].value[1].projectedUsage = 2

\* C22: a UsageSummary call changes no cycle and no snapshot of the store and
\* none of the tracker's lastValues, lastResets and hasLastValues, between two
\* Process calls and between two store calls of one Process call alike
C22_UsageSummaryWritesNothing ==
    [][SummaryStep => UNCHANGED <<cycles, latest, lastValues, lastResets, hasLastValues>>]_vars

\* a summary was answered while a Process call had closed a cycle and not yet
\* opened the next one
C22_Witness ==
    /\ summary # << >>
    /\ summary[1].midProcess
    /\ ~summary[1].err
    /\ MidProcess
    /\ cycles # << >>
    /\ Active(Premium) = << >>

\* a step of the agent in which tracker.Process is called
ProcessBegins == agent'.running > agent.running

\* C23: the agent never has two Process calls in progress at once: when a poll
\* calls Process, the poll before it has returned with all its store calls
\* made, also when the ticker fired while that poll was running
C23_PollsDoNotOverlap ==
    /\ [](agent.running <= 1)
    /\ [][ProcessBegins => (agent.running = 0 /\ agent.inflight = << >>)]_vars

\* the ticker has fired while the poll started by the tick before it stands
\* between two store calls of Process
C23_Witness ==
    /\ MidProcess
    /\ agent.began = "tick"
    /\ agent.running = 1
    /\ ticker

\* a step of run in which the database is closed
DatabaseCloses == db = "open" /\ db' = "closed"

\* a quota whose cycle was closed and that has no active cycle
HalfUpdated(n) == ClosedRows(cycles, n) # {} /\ Active(n) = << >>

\* C24: on shutdown a Process call in flight in the agent goroutine runs to its
\* end before the database is closed, and no quota is left with its old cycle
\* closed and no new cycle opened
C24_ProcessCompletesBeforeClose ==
    /\ [][DatabaseCloses => agent.inflight = << >>]_vars
    /\ []((db = "closed" /\ agent.inflight = << >>) => \A n \in Names : ~HalfUpdated(n))

\* a step of the agent in which poll is called and is seen to have run
PollStep == agent.pc \in {"start", "select"} /\ agent' # agent /\ agent'.pc # "returned"

\* the store and the tracker's memory are as they were
StoreAndTrackerUnchanged == UNCHANGED <<cycles, latest, lastValues, lastResets, hasLastValues>>

\* C25: a poll whose fetch fails, by an error of the fetch or by cancellation,
\* stores no snapshot and calls Process not at all: the store and the tracker
\* are after the poll what they were before it
C25_FailedFetchChangesNothing ==
    [][(PollStep /\ agent'.fetched = "error")
       => (agent'.did = {"fetch"} /\ agent'.pc = "select" /\ StoreAndTrackerUnchanged)]_vars

\* after a poll that opened a cycle, the fetch of a poll started by a tick failed
C25_Witness ==
    /\ agent.fetched = "error"
    /\ agent.began = "tick"
    /\ agent.pc = "select"
    /\ cycles # << >>
    /\ latest # << >>

\* C26: a poll made while pollingCheck returns false does nothing: no fetch, no
\* snapshot, no Process call, no notifier run, no report; as long as no poll
\* found polling enabled the store holds neither snapshot nor cycle
C26_DisabledPollDoesNothing ==
    /\ [][(PollStep /\ ~polling)
          => (agent'.did = {} /\ agent'.pc = "select" /\ StoreAndTrackerUnchanged)]_vars
    /\ [](~agent.enabled => (latest = << >> /\ cycles = << >>))

\* a tick has started a poll with polling disabled, as the poll at the start was
C26_Witness ==
    /\ ~agent.enabled
    /\ agent.began = "tick"
    /\ agent.pc = "select"
    /\ ~polling
    /\ agent.did = {}
    /\ latest = << >>

\* Run has returned nil
Returned_nil == agent.pc = "returned" /\ agent.result = "nil"

\* C27: the first thing Run does is a poll, every later poll takes one tick from
\* the ticker, and once the context is cancelled, before Run starts or later,
\* Run comes to return nil and polls no more
C27_RunPollsAndStops ==
    /\ [][(agent.pc = "start" /\ agent' # agent) => agent'.began = "start"]_vars
    /\ [][(PollStep /\ agent.pc = "select") => (ticker /\ ~ticker' /\ agent'.began = "tick")]_vars
    /\ [][agent.pc = "returned" => (agent' = agent /\ StoreAndTrackerUnchanged)]_vars
    /\ (ctx = "cancelled") ~> Returned_nil

\* the context was cancelled before Run made its first poll: that poll was made,
\* its fetch failed, and Run has returned nil without a poll from the ticker
C27_Witness ==
    /\ Returned_nil
    /\ agent.began = "start"
    /\ agent.fetched = "error"
    /\ now = 0
    /\ ctx = "cancelled"

\* a step in which the middleware answers a request
ServeStep == served' # served

\* the request the middleware answers in this step, and its answer
Request == served'[1].request
Answer == served'[1].answer

\* the request carries a session cookie whose token the store holds unexpired
CarriesValidCookie ==
    /\ Request.cookie # << >>
    /\ Request.cookie[1] \in DOMAIN sessions.tokens
    /\ clock <= sessions.tokens[Request.cookie[1]]

\* the request carries the configured username and password as Basic Auth
CarriesCorrectBasicAuth ==
    /\ Request.header.scheme = "Basic"
    /\ Request.header.payload = "base64"
    /\ Request.header.text = sessions.username \o <<":">> \o sessions.password

\* the path is under /api/
UnderApi == Len(Request.path) > 3 /\ Request.path[1] = "/" /\ Request.path[2] = "api" /\ Request.path[3] = "/"

\* the path is /login or under /static/
OpenPath ==
    \/ Request.path = <<"/", "login">>
    \/ (Len(Request.path) >= 3 /\ Request.path[1] = "/" /\ Request.path[2] = "static"
        /\ Request.path[3] = "/")

\* C28: a request for a path other than /login and /static/... reaches the
\* handler only with a session cookie whose token is valid in the store or, under
\* /api/ only, with correct Basic Auth; every other request gets 401 under
\* /api/ and a redirect to /login elsewhere
C28_OnlyAuthenticatedReachHandler ==
    [][(ServeStep /\ ~OpenPath)
       => LET authenticated == CarriesValidCookie \/ (UnderApi /\ CarriesCorrectBasicAuth)
          IN  /\ Answer = "next" => authenticated
              /\ ~authenticated => Answer = (IF UnderApi THEN "401" ELSE "redirect")]_vars

\* a request for /api, which is not under /api/, that carries correct Basic Auth
\* and a token the store no longer holds was redirected to /login
C28_Witness ==
    /\ served # << >>
    /\ "t1" \notin DOMAIN sessions.tokens
    /\ served[1].answer = "redirect"
    /\ served[1].request.header = [scheme |-> "Basic", payload |-> "base64", text |-> <<"a", ":", "b">>]
    /\ served[1].request.cookie = <<"t1">>
    /\ served[1].request.path = <<"/", "api">>
    /\ clock = MaxClock

\* C29: the cycle a detected reset opens starts from the reset snapshot alone:
\* cycleStart is its capturedAt, totalDelta is 0 and peakUsed is its used value,
\* whatever the closed cycle had counted and whatever the reading before was
C29_NewCycleStartsFromResetSnapshot ==
    [][\A n \in Names :
          (StepCompleted(n) /\ Active(n) # << >> /\ CycleClosed(n))
          => LET opened == QueryActiveCopilotCycle(cycles', n)
             IN  /\ opened # << >>
                 /\ opened[1].cycleStart = now'
                 /\ opened[1].totalDelta = 0
                 /\ opened[1].peakUsed = UsedOf(ThisReading(n))]_vars

\* a cycle that had counted usage and reached a higher peak was closed, and the
\* cycle opened at the reset holds no delta and the lower used value as its peak
C29_Witness ==
    /\ Active(Premium) # << >>
    /\ Active(Premium)[1].cycleStart = now
    /\ Active(Premium)[1].totalDelta = 0
    /\ \E i \in ClosedRows(cycles, Premium) :
          /\ cycles[i].totalDelta > 0
          /\ cycles[i].peakUsed > Active(Premium)[1].peakUsed
          /\ cycles[i].id + 1 = Active(Premium)[1].id
    /\ lastError = NoError
    /\ fired = <<Premium>>

\* this step is a Process call that ran processQuota for n
Visited(n) == ProcessStep /\ \E i \in 1..Len(visited') : visited'[i] = n

\* this step closed the open cycle of n and created no cycle
ClosedWithoutReopening(n) ==
    /\ ProcessStep
    /\ Active(n) # << >>
    /\ ClosedRows(cycles', n) = ClosedRows(cycles, n) \cup {Active(n)[1].id}
    /\ Len(cycles') = Len(cycles)

\* C30: when the reset branch closes the old cycle and the creation of the new
\* one fails, Process returns an error and the quota has no active cycle; the
\* next Process call for the quota adds no closed cycle and never a second
\* active one, and when it completes it has created exactly one active cycle
C30_FailedReopenIsRepairedOnce ==
    [][\A n \in Names :
          /\ ClosedWithoutReopening(n)
             => (lastError' = <<n>> /\ QueryActiveCopilotCycle(cycles', n) = << >>)
          /\ (Visited(n) /\ HalfUpdated(n))
             => /\ ClosedRows(cycles', n) = ClosedRows(cycles, n)
                /\ Cardinality(ActiveRows(cycles', n)) <= 1
                /\ StepCompleted(n)
                   => /\ Cardinality(ActiveRows(cycles', n)) = 1
                      /\ Len(cycles') = Len(cycles) + 1
                      /\ QueryActiveCopilotCycle(cycles', n)[1].cycleStart = now']_vars

\* a reset closed the only cycle of the quota, the creation of the next one
\* failed and Process returned the error: the quota has no active cycle, and a
\* later call can still follow
C30_Witness ==
    /\ HalfUpdated(Premium)
    /\ lastError = <<Premium>>
    /\ failures = 1
    /\ Len(cycles) = 1
    /\ fired = << >>
    /\ now < MaxTime

\* the snapshot the poll of this step fetched is the one Process was called with
ProcessCalledWithFetched ==
    /\ agent'.pc = "process"
    /\ "process" \in agent'.did
    /\ agent'.inflight # << >>
    /\ agent'.inflight[1].snapshot.capturedAt = now'
    /\ agent'.inflight[1].calls = 0

\* a step in which Process returns an error to poll
ProcessFails == agent.pc = "process" /\ agent'.processed = "error"

\* an insert or a Process call of the agent has failed
StoreErrorSeen ==
    agent.erred \/ agent.inserted = "error" \/ agent.processed = "error"

\* C32: a poll whose snapshot could not be inserted still calls Process with
\* that snapshot; a poll whose Process call returned an error still runs the
\* notifier and the report and leaves Run in its loop; Run returns only when
\* the context is cancelled, and after a store error a tick still starts a poll
C32_StoreErrorsDoNotStopAgent ==
    /\ [][(PollStep /\ agent'.inserted = "error")
          => (ProcessCalledWithFetched /\ latest' = latest)]_vars
    /\ [][ProcessFails
          => (agent'.pc = "select" /\ agent'.did = {"fetch", "insert", "process",
                                                    "notify", "report"})]_vars
    /\ [](agent.pc = "returned" => ctx = "cancelled")
    /\ []((StoreErrorSeen /\ agent.pc = "select" /\ ticker /\ ctx = "live"
           /\ now < MaxAgentTime)
          => ENABLED (\E snapshot \in AgentSnapshots : SelectTick(FALSE, FALSE, snapshot)))

\* an earlier poll could not insert its snapshot or had its Process call fail
\* at a store call; the poll started by the next tick stored its snapshot and
\* ran to its end
C32_Witness ==
    /\ agent.erred
    /\ agent.began = "tick"
    /\ agent.pc = "select"
    /\ agent.inserted = "ok"
    /\ agent.processed = "ok"
    /\ Len(latest) = 1
    /\ cycles # << >>

\* a step of Run in which poll is called
AgentPollStep == run'.polls > run.polls

\* the session of this Run is a row of the store that is not ended
SessionOpen == run.sessionID \in OpenSessions(sessionRows)

\* Run has returned the error of CreateSession
ReturnedCreateError == run.pc = "returned" /\ run.result = "error"

\* Run has returned nil
ReturnedOnCancel == run.pc = "returned" /\ run.result = "nil"

\* what the sentence holds of a Run that goes on: the session is created before
\* any poll, CloseSession is called once, with the id of that session, by the
\* time Run returns nil, and not before; Run returns nil only on cancellation
SessionOfRun ==
    /\ [][AgentPollStep => SessionOpen]_vars
    /\ [](ReturnedOnCancel => (run.closeCalls = <<run.sessionID>> /\ run.ctx = "cancelled"))
    /\ [](run.pc \in {"start", "poll", "select"} => run.closeCalls = << >>)

\* C33, as stated: Run creates its session before the first poll and has
\* called CloseSession once, for that session, when it returns on
\* cancellation; a Run whose CreateSession failed returns the error and has
\* neither polled nor closed any session
C33_FailedCreateClosesNoSession ==
    /\ SessionOfRun
    /\ [](ReturnedCreateError
          => (run.polls = 0 /\ run.closeCalls = << >> /\ run.orphans = {}))

\* C33: Run creates its session before the first poll and has called
\* CloseSession once, for that session, when it returns on cancellation; a Run
\* whose CreateSession failed returns the error and has neither polled nor
\* called CloseSession, and the sessions it ended are those earlier runs left
\* open, ended by CloseOrphanedSessions before the create
C33_SessionCreatedAndClosedOnce ==
    /\ SessionOfRun
    /\ [](ReturnedCreateError
          => (/\ run.polls = 0
              /\ run.closeCalls = << >>
              /\ run.sessionID \notin {sessionRows[i].id : i \in DOMAIN sessionRows}
              /\ \A id \in run.orphans : id < run.sessionID))

\* a Run whose CreateSession failed has returned after it ended the session a
\* killed run had left open
C33_Witness ==
    /\ ReturnedCreateError
    /\ run.orphans # {}
    /\ run.polls = 0

\* a step in which the ValidateToken call of caller c returns
ValidateReturns(c) == validating[c].pc # "done" /\ validating'[c].pc = "done"

\* a step in which Authenticate returns "", false
AuthenticateFails ==
    /\ issued'.last # issued.last
    /\ ~issued'.last[1].ok

\* a step in which a token is added to the map
TokenAdded(token) ==
    token \notin DOMAIN sessions.tokens /\ token \in DOMAIN sessions'.tokens

\* C34: a ValidateToken call made after Authenticate returned the token, and
\* returning while the token is neither expired nor passed to Invalidate,
\* accepts it; a call made after Invalidate(token) returned or after the
\* expiry passed refuses it, however the calls of the goroutines interleave;
\* the empty token and a token Authenticate never returned are refused; the
\* map gains a token only in an Authenticate call that returns it
C34_TokenValidUntilExpiredOrInvalidated ==
    /\ [][\A c \in Callers :
            ValidateReturns(c)
            => LET v == validating'[c]
               IN  /\ (v.known /\ ~Dead(v.token, clock)) => v.result = "true"
                   /\ v.dead => v.result = "false"
                   /\ v.token \notin DOMAIN issued.tokens => v.result = "false"
                   /\ v.token = "" => v.result = "false"]_vars
    /\ [][AuthenticateFails => sessions' = sessions]_vars
    /\ [][\A token \in CookieValues :
            TokenAdded(token)
            => (issued'.last = <<[ok |-> TRUE, token |-> token]>>
                /\ token \notin DOMAIN issued.tokens)]_vars
    /\ [](DOMAIN sessions.tokens \subseteq {t \in DOMAIN issued.tokens : ~issued.tokens[t].invalidated})

\* one caller was told the token is valid; after its expiry passed another
\* caller, with no Invalidate made, found it expired, deleted it and refused
\* it, and an Authenticate call with a wrong user name has failed since
C34_Witness ==
    /\ validating[1] = [pc |-> "done", token |-> "t1", expiry |-> <<SessionMaxAge>>,
                        known |-> TRUE, dead |-> FALSE, result |-> "true"]
    /\ validating[2].pc = "done"
    /\ validating[2].token = "t1"
    /\ validating[2].dead
    /\ validating[2].result = "false"
    /\ ~issued.tokens["t1"].invalidated
    /\ "t1" \notin DOMAIN sessions.tokens
    /\ issued.last = <<[ok |-> FALSE, token |-> ""]>>

\* C35: every closed cycle has cycleEnd greater than or equal to its
\* cycleStart, also a cycle opened by a snapshot captured after the reset date
\* the cycle carries
C35_CycleEndsNotBeforeItStarts ==
    \A i \in 1..Len(cycles) :
        cycles[i].cycleEnd # << >> => cycles[i].cycleEnd[1] >= cycles[i].cycleStart

\* no cycle the store held before this step is closed or changed in its end
NoCycleClosed ==
    /\ Len(cycles') >= Len(cycles)
    /\ \A i \in 1..Len(cycles) : cycles'[i].cycleEnd = cycles[i].cycleEnd

\* C36: the first Process call of a tracker that holds nothing yet, over a
\* store that holds cycles, closes no cycle and invokes no callback, whatever
\* reset date and remaining count its snapshot carries
C36_FirstCallAfterRestartClosesNothing ==
    [][(ProcessStep /\ FreshTracker /\ cycles # << >>)
       => (NoCycleClosed /\ fired' = << >>)]_vars

\* after a restart, with a callback registered, the first call has run to its
\* end on a snapshot whose reset date differs from that of the stored cycle
\* and has passed, and whose remaining count lies above what the cycle's peak
\* left: the cycle is still the open one
C36_Witness ==
    /\ hasLastValues
    /\ onReset
    /\ ~own[Premium]
    /\ failures = 0
    /\ Len(cycles) = 1
    /\ Active(Premium) # << >>
    /\ Active(Premium)[1].resetDate = <<1>>
    /\ Active(Premium)[1].peakUsed = 2
    /\ Premium \in DOMAIN lastResets
    /\ lastResets[Premium] = ResetDateStr(<<[utc |-> 2, off |-> 0]>>)
    /\ lastValues[Premium] = 2
    /\ fired = << >>

\* the open cycle of n was opened by this tracker at a reset that the
\* time-based test detected
OpenedByFallback(n) ==
    /\ own[n]
    /\ Active(n) # << >>
    /\ obs[n].openedBy = "fallback"

\* the snapshot of this step carries the reset date the open cycle of n carries
CarriesDateOfCycle(n) ==
    /\ Active(n)[1].resetDate # << >>
    /\ n \in DOMAIN lastResets'
    /\ ParseRFC3339(lastResets'[n]) = Active(n)[1].resetDate

\* C37: a cycle opened at a reset the time-based test detected is not closed
\* by a later snapshot that carries the same reset date, also when the
\* remaining count of that snapshot lies above the one before it
C37_FallbackResetClosesOneCycle ==
    [][\A n \in Names :
         (OpenedByFallback(n) /\ StepCompleted(n) /\ CarriesDateOfCycle(n))
         => ~CycleClosed(n)]_vars

\* a step in which UsageSummary makes its first query
ReadsActiveCycle == asking = << >> /\ asking' # << >>

\* C38: a summary returned by a call whose queries fell between the store
\* calls of a Process call counts no cycle twice: its completedCycles is at
\* most the number of cycles the quota has in the store when the call returns,
\* and its totalTracked at most the sum of their totalDelta
C38_SummaryCountsNoCycleTwice ==
    [][SummaryStep
       => (/\ Returned.completedCycles <= Cardinality(RowsOf(cycles, Asked.quotaName))
           /\ Returned.totalTracked
                <= SumDelta(cycles, RowsOf(cycles, Asked.quotaName)))]_vars

\* C39: once a quota has a cycle in the store, the query for its active cycle
\* that UsageSummary makes finds one, also between the store calls of a
\* Process call that handles a reset
C39_SummaryFindsActiveCycle ==
    [][(ReadsActiveCycle /\ RowsOf(cycles, asking'[1].quotaName) # {})
       => asking'[1].activeCycle # << >>]_vars

\* the cycles of n that this step closed
ClosedInStep(n) == ClosedRows(cycles', n) \ ClosedRows(cycles, n)

\* C40: a Process call invokes onReset for a quota at most as often as it
\* closed a cycle of that quota, and when it does, a callback is registered,
\* the quota had an open cycle before the call, that cycle is closed and a
\* later one is open after it, and the update of the quota met no store error
C40_CallbackOnlyAfterCloseAndReopen ==
    [][ProcessStep
       => \A n \in Names :
            /\ CountIn(fired', n) <= Cardinality(ClosedInStep(n))
            /\ CountIn(fired', n) > 0
                 => (/\ onReset
                     /\ Active(n) # << >>
                     /\ Active(n)[1].id \in ClosedInStep(n)
                     /\ ActiveId(cycles', n) # << >>
                     /\ ActiveId(cycles', n)[1] > Active(n)[1].id
                     /\ lastError' # <<n>>)]_vars

\* with a callback registered a reset was detected, the old cycle was closed
\* and the new one created, and the write of its initial peak failed: the
\* callback was not invoked
C40_Witness ==
    /\ onReset
    /\ failures = 1
    /\ lastError = <<Premium>>
    /\ fired = << >>
    /\ Cardinality(ClosedRows(cycles, Premium)) = 1
    /\ Active(Premium) # << >>
    /\ Active(Premium)[1].cycleStart = now
    /\ Active(Premium)[1].id = 2


====
